---------------------------- MODULE Spec2Model ----------------------------
(***************************************************************************)
(* Deployment workflow and Kubernetes manifest applier of                  *)
(* yourssu-infrastructure-system-api.                                      *)
(*                                                                         *)
(* Part 1: the cluster side (services/kubernetes.py) as pure operators     *)
(*         over a cluster state.                                           *)
(* Part 2: the persistence store (crud/*.py) as operators over the tables. *)
(* Part 3: the request handlers (api/endpoints/*.py) as step machines, one *)
(*         step per committed persistence call or cluster call.            *)
(* Part 4: specifications.                                                 *)
(* Part 5: properties.                                                     *)
(***************************************************************************)
EXTENDS Integers, Sequences, FiniteSets, TLC

(***************************************************************************)
(* Bounds of the model.                                                    *)
(***************************************************************************)
\* number of requests served in a run
MaxRequests == 4
\* number of Deployment rows the store may hold
MaxDeployments == 3
\* number of Manifest rows the store may hold
MaxManifests == 2
\* stand-in for the default page size `limit: int = 100` of the filter
\* queries (crud/deployments.py:18, crud/manifests.py:15): the page holds the
\* PageLimit newest rows.  Scaled down so that a page can overflow.
PageLimit == 1
\* longest manifest list handed to apply_k8s in SpecApply and to delete_k8s
\* in SpecDelete
MaxLen == 4
\* longest Application list handed to get_all_applications_status
MaxApps == 3
\* oldest resource handed to _calculate_age, in whole days
MaxDays == 2
\* longest a single poll of _wait_for_resource_ready takes, in seconds
MaxPollSeconds == 1

(***************************************************************************)
(* Part 1.  services/kubernetes.py                                         *)
(***************************************************************************)

\* A manifest's content is YAML text.  yaml.safe_load is modelled by what it
\* yields: form "bad" raises a YAML error, form "null" loads as None, form
\* "empty" loads as the empty mapping, form "map" loads as a mapping with
\* the given fields (kind "" = no kind key).
Doc(kind, name, namespace, image) ==
    [form |-> "map", kind |-> kind, name |-> name,
     namespace |-> namespace, image |-> image]

Manifest(file_name, content) == [file_name |-> file_name, content |-> content]

mNamespace  == Manifest("ns.yaml",   Doc("Namespace",  "app", "default", ""))
mService    == Manifest("svc.yaml",  Doc("Service",    "app", "app", ""))
mDeployment == Manifest("dep.yaml",  Doc("Deployment", "app", "app", "img1"))
mWorker     == Manifest("dep2.yaml", Doc("deployment", "worker", "app", "img1"))
mIngress    == Manifest("ing.yaml",  Doc("Ingress",    "app", "app", ""))
mConfigMap  == Manifest("cm.yaml",   Doc("ConfigMap",  "cfg", "app", ""))
\* content that yaml.safe_load rejects, and a mapping without a kind key
mBroken     == Manifest("bad.yaml",
                        [Doc("", "", "", "") EXCEPT !.form = "bad"])
mNoKind     == Manifest("nokind.yaml", Doc("", "x", "app", ""))
\* a Deployment whose pod template lists no containers (image "")
mBare       == Manifest("bare.yaml", Doc("Deployment", "bare", "app", ""))

\* str.lower() on the kind strings that occur
Lower(s) ==
    CASE s = "Namespace"  -> "namespace"
      [] s = "Service"    -> "service"
      [] s = "Deployment" -> "deployment"
      [] s = "Ingress"    -> "ingress"
      [] s = "ConfigMap"  -> "configmap"
      [] OTHER            -> s

\* the element of a singleton set; The({e(x) : x \in {v}}) evaluates v once
The(S) == CHOOSE x \in S : TRUE

\* exceptions, by Python type and carried status
NoExc == [type |-> "none", status |-> 200]
ApiException(s) == [type |-> "ApiException", status |-> s]
HTTPException(s) == [type |-> "HTTPException", status |-> s]
AttributeError == [type |-> "AttributeError", status |-> 0]
YAMLError == [type |-> "YAMLError", status |-> 0]

\* An injected cluster fault: the read, write (patch or create) or delete
\* call of the item-th item (in call order) is rejected with the given
\* status.  item 0 = no fault.
NoFault == [item |-> 0, call |-> "none", status |-> 200]
FaultStatuses == {403, 409, 500}
ApplyFaults(n) ==
    {NoFault} \cup [item : 1..n, call : {"read", "write"}, status : FaultStatuses]
DeleteFaults(n) ==
    {NoFault} \cup [item : 1..n, call : {"delete"}, status : FaultStatuses]

FaultAt(fault, k) ==
    IF fault.item = k THEN fault ELSE NoFault

EmptyCluster == << >>

ResourceKey(kind, name, namespace) ==
    IF Lower(kind) = "namespace" THEN <<"namespace", "", name>>
    ELSE <<Lower(kind), namespace, name>>

\* the cluster after a successful create or patch of `key` with `body`
Put(cl, key, body) ==
    [k \in (DOMAIN cl) \cup {key} |-> IF k = key THEN body ELSE cl[k]]

\* the cluster after a successful delete of `key`
Remove(cl, key) ==
    [k \in (DOMAIN cl) \ {key} |-> cl[k]]

ReadCall(key) == [verb |-> "read", key |-> key]
PatchCall(key) == [verb |-> "patch", key |-> key]
CreateCall(key) == [verb |-> "create", key |-> key]
DeleteCall(key) == [verb |-> "delete", key |-> key]

CoreKinds == {"namespace", "service", "deployment", "ingress"}

\* body sent by the create branch: a Namespace is created from a minimal body
CreateBody(kind, name, body) ==
    IF Lower(kind) = "namespace" THEN Doc("Namespace", name, "", "") ELSE body

\* _apply_resource without the lookup: every resource is created, and the
\* cluster rejects the create of a resource that exists with 409
ReadPatchCreate_CreateOnly(kind, name, namespace, body, cl, f) ==
    LET key == ResourceKey(kind, name, namespace)
    IN  IF Lower(kind) \notin CoreKinds
        THEN [cluster |-> cl, calls |-> << >>, exc |-> AttributeError]
        ELSE IF f.call = "write"
        THEN [cluster |-> cl, calls |-> <<CreateCall(key)>>,
              exc |-> ApiException(f.status)]
        ELSE IF key \in DOMAIN cl
        THEN [cluster |-> cl, calls |-> <<CreateCall(key)>>,
              exc |-> ApiException(409)]
        ELSE [cluster |-> Put(cl, key, CreateBody(kind, name, body)),
              calls |-> <<CreateCall(key)>>, exc |-> NoExc]

\* the inner try / except ApiException of one kind branch of _apply_resource:
\* read; found -> patch; 404 -> create; any other ApiException is re-raised.
\* Kinds outside the four branches reach self.custom_objects, an attribute
\* the service never sets.
ReadPatchCreate(kind, name, namespace, body, cl, f) ==
    LET key == ResourceKey(kind, name, namespace)
        found == key \in DOMAIN cl
    IN  IF Lower(kind) \notin CoreKinds
        THEN [cluster |-> cl, calls |-> << >>, exc |-> AttributeError]
        ELSE IF f.call = "read"
        THEN [cluster |-> cl, calls |-> <<ReadCall(key)>>,
              exc |-> ApiException(f.status)]
        ELSE IF found
        THEN IF f.call = "write"
             THEN [cluster |-> cl, calls |-> <<ReadCall(key), PatchCall(key)>>,
                   exc |-> ApiException(f.status)]
             ELSE [cluster |-> Put(cl, key, body),
                   calls |-> <<ReadCall(key), PatchCall(key)>>, exc |-> NoExc]
        ELSE IF f.call = "write"
             THEN [cluster |-> cl, calls |-> <<ReadCall(key), CreateCall(key)>>,
                   exc |-> ApiException(f.status)]
             ELSE [cluster |-> Put(cl, key, CreateBody(kind, name, body)),
                   calls |-> <<ReadCall(key), CreateCall(key)>>, exc |-> NoExc]

\* _apply_resource: the outer `except Exception` turns every failure into
\* HTTPException(500)
ApplyResource(kind, name, namespace, body, cl, f) ==
    The({IF r.exc = NoExc THEN r ELSE [r EXCEPT !.exc = HTTPException(500)] :
            r \in {ReadPatchCreate(kind, name, namespace, body, cl, f)}})

\* _apply_yaml_content
ApplyYamlContent(content, cl, f) ==
    IF content.form = "bad"
    THEN [cluster |-> cl, calls |-> << >>, exc |-> YAMLError]
    ELSE IF content.form \in {"null", "empty"}
    THEN [cluster |-> cl, calls |-> << >>, exc |-> NoExc]
    ELSE ApplyResource(content.kind, content.name, content.namespace,
                       content, cl, f)

\* content.get("kind", "").lower() of the classification loop; None has no
\* .get and a YAML error propagates
KindOf(content) ==
    IF content.form = "map" THEN Lower(content.kind) ELSE ""

ClassifyFails(manifests) ==
    \E i \in 1..Len(manifests) : manifests[i].content.form \in {"bad", "null"}

NoBuckets ==
    [namespace |-> << >>, service |-> << >>, deployment |-> << >>,
     ingress |-> << >>, other |-> << >>]

BucketOf(kind) ==
    IF kind \in CoreKinds THEN kind ELSE "other"

\* the classification loop of apply_k8s and delete_k8s
RECURSIVE Classify(_, _, _)
Classify(manifests, i, buckets) ==
    IF i > Len(manifests) THEN buckets
    ELSE LET b == BucketOf(KindOf(manifests[i].content))
         IN  Classify(manifests, i + 1,
                      [buckets EXCEPT ![b] = Append(@, manifests[i])])

\* apply_k8s without the buckets: the items are applied in input order
ApplyOrder_Input(manifests) == manifests

\* order in which apply_k8s walks the buckets
ApplyOrder(manifests) ==
    LET b == Classify(manifests, 1, NoBuckets)
    IN  b.namespace \o b.service \o b.deployment \o b.ingress \o b.other

\* the `except ApiException` clause inside each bucket loop of apply_k8s
BucketHandler(exc) ==
    IF exc.type # "ApiException" THEN exc
    ELSE IF exc.status = 403 THEN HTTPException(403)
    ELSE IF exc.status = 409 THEN HTTPException(409)
    ELSE HTTPException(500)

\* the outer `except Exception` of apply_k8s / delete_k8s
OuterHandler(exc) ==
    IF exc = NoExc THEN NoExc ELSE HTTPException(500)

\* the bucket loops as a best-effort pass: a failing item is skipped and the
\* items after it are still applied; the first failure is raised at the end
RECURSIVE ApplyItems_Continue(_, _, _, _)
ApplyItems_Continue(items, k, acc, fault) ==
    IF k > Len(items) THEN acc
    ELSE The({The({ApplyItems_Continue(items, k + 1, a, fault) :
                     a \in {[cluster |-> r.cluster,
                             applied_files |->
                                 IF r.exc = NoExc
                                 THEN Append(acc.applied_files,
                                             items[k].file_name)
                                 ELSE acc.applied_files,
                             files |-> Append(acc.files, items[k].file_name),
                             calls |-> acc.calls \o r.calls,
                             exc |-> IF acc.exc = NoExc
                                     THEN BucketHandler(r.exc)
                                     ELSE acc.exc]}}) :
                 r \in {ApplyYamlContent(items[k].content, acc.cluster,
                                         FaultAt(fault, k))}})

\* the five bucket loops of apply_k8s, item k of `items` onwards
\* acc: the cluster, the applied_files list, the file names of the items
\* attempted and the cluster calls issued so far
RECURSIVE ApplyItems(_, _, _, _)
ApplyItems(items, k, acc, fault) ==
    IF k > Len(items) THEN acc
    ELSE The({IF r.exc = NoExc
              THEN The({ApplyItems(items, k + 1, a, fault) :
                          a \in {[cluster |-> r.cluster,
                                  applied_files |->
                                      Append(acc.applied_files,
                                             items[k].file_name),
                                  files |-> Append(acc.files,
                                                   items[k].file_name),
                                  calls |-> acc.calls \o r.calls,
                                  exc |-> NoExc]}})
              ELSE [cluster |-> r.cluster,
                    applied_files |-> acc.applied_files,
                    files |-> Append(acc.files, items[k].file_name),
                    calls |-> acc.calls \o r.calls,
                    exc |-> BucketHandler(r.exc)] :
                 r \in {ApplyYamlContent(items[k].content, acc.cluster,
                                         FaultAt(fault, k))}})

\* apply_k8s.  cluster: the cluster afterwards; applied_files: the list the
\* finally clause prints; files: the file names of the items attempted;
\* calls: the cluster calls issued; exc: the exception raised, if any.
ApplyK8s(manifests, cl, fault) ==
    IF ClassifyFails(manifests)
    THEN [cluster |-> cl, applied_files |-> << >>, calls |-> << >>,
          files |-> << >>, exc |-> HTTPException(500)]
    ELSE The({[r EXCEPT !.exc = OuterHandler(r.exc)] :
                 r \in {ApplyItems(items, 1,
                                   [cluster |-> cl, applied_files |-> << >>,
                                    files |-> << >>, calls |-> << >>,
                                    exc |-> NoExc], fault) :
                           items \in {ApplyOrder(manifests)}}})

\* delete_k8s walking the buckets in the order of apply_k8s
DeleteOrder_Apply(manifests) == ApplyOrder(manifests)

\* order in which delete_k8s walks the buckets
DeleteOrder(manifests) ==
    LET b == Classify(manifests, 1, NoBuckets)
    IN  b.deployment \o b.service \o b.ingress \o b.namespace \o b.other

\* a creation timestamp: absent, or a time in seconds
NoTimestamp == [set |-> FALSE, at |-> 0]
Timestamp(at) == [set |-> TRUE, at |-> at]

\* datetime.timedelta: normalised to days and 0 <= seconds < 86400
Timedelta(seconds) ==
    [days |-> seconds \div 86400, seconds |-> seconds % 86400]
TotalSeconds(days, seconds) == days * 86400 + seconds

\* f"{n}{unit}"
Format(n, unit) == ToString(n) \o unit

\* _calculate_age that reports days only from the second day on
CalculateAge_FromSecondDay(creation_timestamp, now) ==
    IF ~creation_timestamp.set THEN "Unknown"
    ELSE LET age == Timedelta(now - creation_timestamp.at)
             days == age.days
             hours == age.seconds \div 3600
             minutes == (age.seconds % 3600) \div 60
         IN  IF days > 1 THEN Format(days, "d")
             ELSE IF hours > 0 THEN Format(hours, "h")
             ELSE Format(minutes, "m")

\* KubernetesService._calculate_age, with datetime.now(timezone.utc) = now
CalculateAge(creation_timestamp, now) ==
    IF ~creation_timestamp.set THEN "Unknown"
    ELSE LET age == Timedelta(now - creation_timestamp.at)
             days == age.days
             hours == age.seconds \div 3600
             minutes == (age.seconds % 3600) \div 60
         IN  IF days > 0 THEN Format(days, "d")
             ELSE IF hours > 0 THEN Format(hours, "h")
             ELSE Format(minutes, "m")

\* _wait_for_resource_ready.  What one poll gets from the cluster: the
\* resource is absent (404, the _get_* helpers return None), the call
\* raises another ApiException, or the resource is found; a Deployment then
\* shows its status.ready_replicas and status.replicas
SleepSeconds == 5
DefaultTimeout == 300
PollAnswers ==
    {[found |-> FALSE, error |-> FALSE, ready_replicas |-> 0, replicas |-> 0],
     [found |-> FALSE, error |-> TRUE, ready_replicas |-> 0, replicas |-> 0],
     [found |-> TRUE, error |-> FALSE, ready_replicas |-> 0, replicas |-> 1],
     [found |-> TRUE, error |-> FALSE, ready_replicas |-> 1, replicas |-> 1]}

\* a poll that takes a Deployment for ready as soon as it exists
PollReady_Exists(kind, ans) ==
    /\ ~ans.error
    /\ kind \in {"Deployment", "Service", "Ingress"}
    /\ ans.found

\* lines 768-789: the poll returns from the function
PollReady(kind, ans) ==
    /\ ~ans.error
    /\ CASE kind = "Deployment" ->
                ans.found /\ ans.ready_replicas = ans.replicas
         [] kind = "Service" -> ans.found
         [] kind = "Ingress" -> ans.found
         [] OTHER -> FALSE

\* a sleep that returns at once
Sleep_None(clock) == clock

\* time.sleep(5)
Sleep(clock) == clock + SleepSeconds

\* the cluster's answer to a delete call: the injected rejection, 404 for a
\* resource that is not there, success otherwise
DeleteAnswer(cl, key, f) ==
    IF f.call = "delete" THEN ApiException(f.status)
    ELSE IF key \notin DOMAIN cl THEN ApiException(404)
    ELSE NoExc

\* a delete loop's handler that reports every rejection, not found included
DeleteHandler_Strict(exc) ==
    IF exc = NoExc THEN NoExc ELSE HTTPException(500)

\* the `except Exception` clause inside each delete loop: an exception whose
\* text contains "not found" (the reason of a 404) is swallowed, any other
\* is raised as HTTPException(500)
DeleteHandler(exc) ==
    IF exc = NoExc \/ exc.status = 404 THEN NoExc ELSE HTTPException(500)

\* one item of a delete loop: the delete call of its kind and its handler.
\* In the last loop only configmap and secret have a delete call.
\* answers: the status the cluster answered each call with
DeleteItem(content, cl, f) ==
    LET kind == KindOf(content)
        key == ResourceKey(kind, content.name, content.namespace)
    IN  IF kind \notin CoreKinds \cup {"configmap", "secret"}
        THEN [cluster |-> cl, calls |-> << >>, answers |-> << >>,
              exc |-> NoExc]
        ELSE The({[cluster |-> IF a = NoExc THEN Remove(cl, key) ELSE cl,
                   calls |-> <<DeleteCall(key)>>,
                   answers |-> <<a.status>>,
                   exc |-> DeleteHandler(a)] :
                     a \in {DeleteAnswer(cl, key, f)}})

\* the five loops of delete_k8s, item k of `items` onwards
RECURSIVE DeleteItems(_, _, _, _)
DeleteItems(items, k, acc, fault) ==
    IF k > Len(items) THEN acc
    ELSE The({IF r.exc = NoExc
              THEN The({DeleteItems(items, k + 1, a, fault) :
                          a \in {[cluster |-> r.cluster,
                                  calls |-> acc.calls \o r.calls,
                                  answers |-> acc.answers \o r.answers,
                                  exc |-> NoExc]}})
              ELSE [cluster |-> r.cluster, calls |-> acc.calls \o r.calls,
                    answers |-> acc.answers \o r.answers,
                    exc |-> r.exc] :
                 r \in {DeleteItem(items[k].content, acc.cluster,
                                   FaultAt(fault, k))}})

\* delete_k8s
DeleteK8s(manifests, cl, fault) ==
    IF ClassifyFails(manifests)
    THEN [cluster |-> cl, calls |-> << >>, answers |-> << >>,
          exc |-> HTTPException(500)]
    ELSE The({[r EXCEPT !.exc = OuterHandler(r.exc)] :
                 r \in {DeleteItems(items, 1,
                                    [cluster |-> cl, calls |-> << >>,
                                     answers |-> << >>, exc |-> NoExc],
                                    fault) :
                           items \in {DeleteOrder(manifests)}}})

\* The status queries.  ans: what the cluster answers, for one Application,
\* to the read of its Deployment resource (dep) and to the listing of its
\* pods (pods), as HTTP statuses.
StatusAnswers == [dep : {200, 404, 403, 500}, pods : {200, 404, 500}]

\* _get_deployment: the resource, None on 404, any other ApiException raised
GetDeployment(ans) ==
    IF ans.dep = 200 THEN [value |-> "V1Deployment", exc |-> NoExc]
    ELSE IF ans.dep = 404 THEN [value |-> "None", exc |-> NoExc]
    ELSE [value |-> "None", exc |-> ApiException(ans.dep)]

\* _get_pod_statuses: the list, empty on 404, HTTPException(500) otherwise
GetPodStatuses(ans) ==
    IF ans.pods \in {200, 404} THEN NoExc ELSE HTTPException(500)

\* _handle_api_exception
HandleApiException(exc) ==
    IF exc.status = 404 THEN HTTPException(404) ELSE HTTPException(500)

\* get_application_status: an ApiException goes to _handle_api_exception;
\* anything else raised in the body, the AttributeError of reading
\* deployment.metadata off None included, becomes HTTPException(500).
\* status: the application_id of the DeploymentStatus returned, 0 for none
GetApplicationStatus(application_id, ans) ==
    The({IF d.exc # NoExc
         THEN [status |-> 0, exc |-> HandleApiException(d.exc)]
         ELSE IF GetPodStatuses(ans) # NoExc
         THEN [status |-> 0, exc |-> HTTPException(500)]
         ELSE IF d.value = "None"
         THEN [status |-> 0, exc |-> HTTPException(500)]
         ELSE [status |-> application_id, exc |-> NoExc] :
            d \in {GetDeployment(ans)}})

\* the loop of get_all_applications_status as a fail-fast pass: the first
\* failing query is raised
RECURSIVE GetAllApplicationsStatus_Abort(_, _, _, _)
GetAllApplicationsStatus_Abort(apps, answers, k, acc) ==
    IF k > Len(apps) THEN [statuses |-> acc, exc |-> NoExc]
    ELSE The({IF r.exc = NoExc
              THEN GetAllApplicationsStatus_Abort(apps, answers, k + 1,
                                                  Append(acc, r.status))
              ELSE [statuses |-> acc, exc |-> HTTPException(500)] :
                 r \in {GetApplicationStatus(apps[k], answers[apps[k]])}})

\* get_all_applications_status, application k of `apps` onwards: a status
\* is appended, a failing query is skipped
RECURSIVE GetAllApplicationsStatus(_, _, _, _)
GetAllApplicationsStatus(apps, answers, k, acc) ==
    IF k > Len(apps) THEN [statuses |-> acc, exc |-> NoExc]
    ELSE The({GetAllApplicationsStatus(apps, answers, k + 1,
                  IF r.exc = NoExc THEN Append(acc, r.status) ELSE acc) :
                 r \in {GetApplicationStatus(apps[k], answers[apps[k]])}})

(***************************************************************************)
(* Part 2.  The persistence store: models/models.py and crud/*.py.         *)
(* A table is a sequence of rows; a row's id is its index, and ids grow    *)
(* with created_at.  Every crud call commits on its own.                   *)
(***************************************************************************)
VARIABLES applications, deployments, manifests, cluster, req, served, k8s

vars == <<applications, deployments, manifests, cluster, req, served, k8s>>

AppIds == {1, 2}
\* users: the requester, the admin, and NULL
UserId == 1
AdminId == 2
NoUser == 0
\* comment column: NULL or a text
NoComment == "NULL"
None == 0

REQUEST == "REQUEST"
RETURN == "RETURN"
APPROVAL == "APPROVAL"
DeploymentState == {REQUEST, RETURN, APPROVAL}

\* a new Deployment row: column defaults of models.Deployment
NewDeployment(application_id) ==
    [application_id |-> application_id, state |-> REQUEST,
     is_applied |-> FALSE, admin_id |-> NoUser, comment |-> NoComment,
     deleted |-> FALSE]

\* a new Manifest row
NewManifest(deployment_id, m) ==
    [deployment_id |-> deployment_id, file_name |-> m.file_name,
     content |-> m.content, deleted |-> FALSE]

Max(S) == CHOOSE m \in S : \A x \in S : x <= m
Min(S) == CHOOSE m \in S : \A x \in S : m <= x

\* .order_by(desc(created_at)).offset(0).limit(n).all() over the ids in S
RECURSIVE NewestFirst(_, _)
NewestFirst(S, n) ==
    IF S = {} \/ n = 0 THEN << >>
    ELSE <<Max(S)>> \o NewestFirst(S \ {Max(S)}, n - 1)

\* rows of a relationship, in primary-key order
RECURSIVE OldestFirst(_)
OldestFirst(S) ==
    IF S = {} THEN << >>
    ELSE <<Min(S)>> \o OldestFirst(S \ {Min(S)})

\* a get by id that does not look at deleted_at
Get_Unfiltered(table, id) ==
    IF id \in 1..Len(table) THEN id ELSE None

\* CRUDBase.get
Get(table, id) ==
    IF id \in 1..Len(table) /\ ~table[id].deleted THEN id ELSE None

\* CRUDBase.get on the applications table
GetApplication(apps, id) ==
    IF id \in DOMAIN apps /\ ~apps[id].deleted THEN id ELSE None

\* CRUDDeployment.get_by_application with its default skip, limit, order_by
GetByApplication(deps, application_id) ==
    NewestFirst({i \in 1..Len(deps) :
                    /\ deps[i].application_id = application_id
                    /\ ~deps[i].deleted}, PageLimit)

\* CRUDDeployment.get_by_state with its default skip, limit, order_by
GetByState(deps, state) ==
    NewestFirst({i \in 1..Len(deps) : /\ deps[i].state = state
                                      /\ ~deps[i].deleted}, PageLimit)

\* CRUDBase.get_multi with its default skip, limit, order_by
GetMulti(table) ==
    NewestFirst({i \in 1..Len(table) : ~table[i].deleted}, PageLimit)

\* CRUDBase.get_count
GetCount(table) ==
    Cardinality({i \in 1..Len(table) : ~table[i].deleted})

\* CRUDManifest.get_by_deployment with its default skip, limit, order_by
GetByDeployment(mans, deployment_id) ==
    NewestFirst({i \in 1..Len(mans) :
                    /\ mans[i].deployment_id = deployment_id
                    /\ ~mans[i].deleted}, PageLimit)

\* the Deployment.manifests relationship (primaryjoin on deleted_at == None)
ManifestIds(mans, deployment_id) ==
    OldestFirst({i \in 1..Len(mans) :
                    /\ mans[i].deployment_id = deployment_id
                    /\ ~mans[i].deleted})

\* [ManifestBase(file_name=..., content=...) for manifest in ids]
RECURSIVE ManifestBases(_, _)
ManifestBases(mans, ids) ==
    IF ids = << >> THEN << >>
    ELSE <<Manifest(mans[Head(ids)].file_name, mans[Head(ids)].content)>>
             \o ManifestBases(mans, Tail(ids))

\* a get_applied that does not filter by application_id
GetApplied_AnyApplication(deps, application_id) ==
    {i \in 1..Len(deps) : deps[i].is_applied /\ ~deps[i].deleted}

\* CRUDDeployment.get_applied: the rows .first() may return (no ORDER BY)
GetApplied(deps, application_id) ==
    {i \in 1..Len(deps) : /\ deps[i].application_id = application_id
                          /\ deps[i].is_applied
                          /\ ~deps[i].deleted}

\* what get_applied returns: one of the rows, or None
GetAppliedResults(deps, application_id) ==
    IF GetApplied(deps, application_id) = {} THEN {None}
    ELSE GetApplied(deps, application_id)

\* update_applied that writes nothing
UpdateApplied_Skip(deps, id, is_applied) == deps

\* CRUDDeployment.update_applied
UpdateApplied(deps, id, is_applied) ==
    IF Get(deps, id) = None THEN deps
    ELSE [deps EXCEPT ![id].is_applied = is_applied]

\* update_state that does not record the admin
UpdateState_NoAdmin(deps, id, admin_id, state, comment) ==
    IF Get(deps, id) = None THEN deps
    ELSE [deps EXCEPT ![id].state = state,
                      ![id].is_applied = IF state = APPROVAL THEN TRUE ELSE @,
                      ![id].comment = comment]

\* update_state that sets is_applied from the state: true for APPROVAL, false
\* for any other state
UpdateState_Unapply(deps, id, admin_id, state, comment) ==
    IF Get(deps, id) = None THEN deps
    ELSE [deps EXCEPT ![id].admin_id = admin_id,
                      ![id].state = state,
                      ![id].is_applied = (state = APPROVAL),
                      ![id].comment = comment]

\* update_state that marks the Deployment applied whatever the new state
UpdateState_ApplyAlways(deps, id, admin_id, state, comment) ==
    IF Get(deps, id) = None THEN deps
    ELSE [deps EXCEPT ![id].admin_id = admin_id,
                      ![id].state = state,
                      ![id].is_applied = TRUE,
                      ![id].comment = comment]

\* CRUDDeployment.update_state
UpdateState(deps, id, admin_id, state, comment) ==
    IF Get(deps, id) = None THEN deps
    ELSE [deps EXCEPT ![id].admin_id = admin_id,
                      ![id].state = state,
                      ![id].is_applied = IF state = APPROVAL THEN TRUE ELSE @,
                      ![id].comment = comment]

\* CRUDApplication.approve
Approve(apps, id) ==
    IF GetApplication(apps, id) = None THEN apps
    ELSE [apps EXCEPT ![id].is_approved = TRUE]

\* CRUDBase.create
Create(table, row) == Append(table, row)

\* CRUDBase.remove: query.get(id) has no deleted_at filter
SoftDelete(table, id) == [table EXCEPT ![id].deleted = TRUE]

\* the three tables, as one value
Store == [applications |-> applications, deployments |-> deployments,
          manifests |-> manifests]

(***************************************************************************)
(* Part 3.  Request handlers: api/endpoints/deployments.py and             *)
(* api/endpoints/applications.py.                                          *)
(*                                                                         *)
(* A handler is a sequence of steps, one step per cluster call or          *)
(* committed crud call.  A step is a function from a context (the tables,  *)
(* the cluster and the request record) to the set of contexts it may       *)
(* produce.  The request record holds the operation, its inputs, its       *)
(* position (pc), its local variables, the response status (0 while in     *)
(* flight), the status of its cluster call (0: none made) and the number   *)
(* of crud writes it has committed.  Reads see the data committed so far.  *)
(* Two fields are bookkeeping of SpecConc: overlap tells whether the       *)
(* request ran, for some time, while the request the other worker's record *)
(* holds was in flight; clear tells whether the request's Application had  *)
(* no non-deleted Deployment in REQUEST or RETURN when the request started.*)
(***************************************************************************)
Procs == {1, 2}

\* bearer tokens: whether the token equals API_TOKEN, and the user id that
\* verify_token decodes from it (NoUser: not a valid JWT of a live user)
BotId == 3
Tokens == {[secret |-> FALSE, user |-> NoUser],
           [secret |-> TRUE, user |-> NoUser],
           [secret |-> TRUE, user |-> BotId]}
NoToken == [secret |-> FALSE, user |-> NoUser]

\* inputs of the workflow requests
ManifestInputs == {<< >>, <<mDeployment>>}
Comments == {NoComment, "comment"}
CiComment == "Automatically approved by CI/CD"
NewImage == "img2"

InitApplications ==
    [a \in AppIds |-> [deleted |-> FALSE, is_approved |-> FALSE]]

Idle ==
    [op |-> "idle", pc |-> "idle", id |-> 0, app |-> 0, state |-> REQUEST,
     comment |-> NoComment, admin |-> FALSE, is_request |-> FALSE,
     token |-> NoToken, in_manifests |-> << >>, applied |-> None, new |-> None,
     todo |-> << >>, items |-> << >>, status |-> 0, cluster_status |-> 0,
     writes |-> 0, overlap |-> FALSE, clear |-> FALSE, name |-> ""]

Goto(c, pc) == [c EXCEPT !.r.pc = pc]

\* the response is sent
Respond(c, status) ==
    [c EXCEPT !.r.pc = "done", !.r.status = status,
              !.r.todo = << >>, !.r.items = << >>]

\* a crud write: it commits (context c2), or it raises, and then the
\* handler's except clause calls db.rollback(), which undoes nothing that an
\* earlier crud call committed, and answers 500
Commit(c, c2) ==
    {[c2 EXCEPT !.r.writes = @ + 1], Respond(c, 500)}

\* a cluster call whose failure is swallowed: the handler goes on at pc
ClusterCall_Swallow(c, r, pc, in_try) ==
    [c EXCEPT !.cluster = r.cluster, !.r.cluster_status = r.exc.status,
              !.r.pc = pc]

\* a cluster call with result r (of ApplyK8s or DeleteK8s): the handler goes
\* on at pc when the call raised nothing; otherwise the response carries the
\* raised status, or 500 when the call sits inside the handler's
\* try / except Exception
ClusterCall(c, r, pc, in_try) ==
    IF r.exc = NoExc
    THEN [c EXCEPT !.cluster = r.cluster, !.r.cluster_status = 200,
                   !.r.pc = pc]
    ELSE Respond([c EXCEPT !.cluster = r.cluster,
                           !.r.cluster_status = r.exc.status],
                 IF in_try THEN 500 ELSE r.exc.status)

----------------------------------------------------------------------------
\* request_deployment

\* lines 53-60: the in-flight guard
InFlightGuard(deps, app) ==
    \E i \in 1..Len(GetByApplication(deps, app)) :
        deps[GetByApplication(deps, app)[i]].state \in {REQUEST, RETURN}

\* lines 42-60
RdCheck(c) ==
    IF GetApplication(c.applications, c.r.app) = None
    THEN {Respond(c, 404)}
    ELSE IF InFlightGuard(c.deployments, c.r.app)
    THEN {Respond(c, 400)}
    ELSE {Goto(c, "rd_create")}

\* line 63
RdCreate(c) ==
    Commit(c, [c EXCEPT !.deployments = Create(@, NewDeployment(c.r.app)),
                        !.r.new = Len(c.deployments) + 1,
                        !.r.pc = "rd_manifest"])

\* lines 65-66, then the response
RdManifest(c) ==
    IF c.r.items = << >>
    THEN {Respond(c, 201)}
    ELSE Commit(c, [c EXCEPT !.manifests =
                                Create(@, NewManifest(c.r.new, Head(c.r.items))),
                             !.r.items = Tail(@)])

----------------------------------------------------------------------------
\* update_deployment

\* lines 107-117: lookup, admin check, crud update of the resource fields
\* (every HTTPException raised here is caught by the handler's own except
\* clause and answered as 500)
UdUpdate(c) ==
    IF Get(c.deployments, c.r.id) = None
    THEN {Respond(c, 500)}
    ELSE IF ~c.r.is_request /\ ~c.r.admin
    THEN {Respond(c, 500)}
    ELSE IF c.r.in_manifests # << >>
    THEN Commit(c, [c EXCEPT !.r.pc = "ud_remove",
                             !.r.todo = ManifestIds(c.manifests, c.r.id)])
    ELSE Commit(c, Goto(c, "ud_state"))

\* update_deployment that keeps the Deployment's current Manifests
UdRemove_Skip(c) ==
    {[c EXCEPT !.r.pc = "ud_create", !.r.todo = << >>]}

\* lines 118-119
UdRemove(c) ==
    IF c.r.todo = << >>
    THEN {Goto(c, "ud_create")}
    ELSE Commit(c, [c EXCEPT !.manifests = SoftDelete(@, Head(c.r.todo)),
                             !.r.todo = Tail(@)])

\* lines 121-122
UdCreate(c) ==
    IF c.r.items = << >>
    THEN {Goto(c, "ud_state")}
    ELSE Commit(c, [c EXCEPT !.manifests =
                                Create(@, NewManifest(c.r.id, Head(c.r.items))),
                             !.r.items = Tail(@)])

\* lines 125-155: the re-request; update_state returns None for a row that is
\* gone and deployment.id then raises
UdState(c) ==
    IF ~c.r.is_request
    THEN {Respond(c, 200)}
    ELSE IF Get(c.deployments, c.r.id) = None
    THEN {Respond(c, 500)}
    ELSE Commit(c, Respond([c EXCEPT !.deployments =
                               UpdateState(@, c.r.id, NoUser, REQUEST,
                                           NoComment)], 200))

----------------------------------------------------------------------------
\* update_state (PATCH /{deployment_id})

\* lines 321-337 and 351-352: admin check, lookup, and either the cluster
\* apply (APPROVAL) or the plain state update (any other state)
UsBegin(c) ==
    IF ~c.r.admin
    THEN {Respond(c, 403)}
    ELSE IF Get(c.deployments, c.r.id) = None
    THEN {Respond(c, 500)}
    ELSE IF c.r.state = APPROVAL
    THEN UNION {{ClusterCall(c, r, "us_get_applied", FALSE) :
                    r \in {ApplyK8s(ms, c.cluster, fault) :
                              fault \in ApplyFaults(Len(ms))}} :
                 ms \in {ManifestBases(c.manifests,
                                       ManifestIds(c.manifests, c.r.id))}}
    ELSE Commit(c, Respond([c EXCEPT !.deployments =
                               UpdateState(@, c.r.id, AdminId, c.r.state,
                                           c.r.comment)], 200))

\* line 340
UsGetApplied(c) ==
    {[c EXCEPT !.r.applied = a, !.r.pc = "us_unset"] :
        a \in GetAppliedResults(c.deployments,
                                c.deployments[c.r.id].application_id)}

\* lines 341-342
UsUnset(c) ==
    IF c.r.applied = None
    THEN {Goto(c, "us_state")}
    ELSE Commit(c, [c EXCEPT !.deployments =
                                UpdateApplied(@, c.r.applied, FALSE),
                             !.r.pc = "us_state"])

\* line 343
UsState(c) ==
    Commit(c, [c EXCEPT !.deployments =
                           UpdateState(@, c.r.id, AdminId, c.r.state,
                                       c.r.comment),
                        !.r.pc = "us_approve"])

\* line 344, then the response
UsApprove(c) ==
    Commit(c, Respond([c EXCEPT !.applications =
                           Approve(@, c.deployments[c.r.id].application_id)],
                      200))

----------------------------------------------------------------------------
\* update_deployment_image (POST /update-image)

SetImage(m, image) ==
    Manifest(m.file_name, [m.content EXCEPT !.image = image])

RECURSIVE NewManifests(_, _)
NewManifests(ms, image) ==
    IF ms = << >> THEN << >>
    ELSE <<IF KindOf(Head(ms).content) = "deployment"
           THEN SetImage(Head(ms), image) ELSE Head(ms)>>
             \o NewManifests(Tail(ms), image)

\* KubernetesService.create_deployment_manifests (image "": no containers)
CreateDeploymentManifests(ms, image) ==
    IF \/ ClassifyFails(ms)
       \/ \E i \in 1..Len(ms) : /\ KindOf(ms[i].content) = "deployment"
                                /\ ms[i].content.image = ""
    THEN [manifests |-> << >>, exc |-> HTTPException(500)]
    ELSE [manifests |-> NewManifests(ms, image), exc |-> NoExc]

\* KubernetesService.apply_deployment_update: build the new manifests, then
\* apply them
ApplyDeploymentUpdate(ms, image, cl, fault) ==
    The({IF m.exc # NoExc
         THEN [manifests |-> << >>, cluster |-> cl, calls |-> << >>,
               exc |-> m.exc]
         ELSE The({[manifests |-> m.manifests, cluster |-> r.cluster,
                    calls |-> r.calls, exc |-> r.exc] :
                      r \in {ApplyK8s(m.manifests, cl, fault)}}) :
            m \in {CreateDeploymentManifests(ms, image)}})

\* lines 376-395: token check, lookup of the applied deployment,
\* apply_deployment_update
UiBegin(c) ==
    IF ~c.r.token.secret
    THEN {Respond(c, 401)}
    ELSE IF GetApplied(c.deployments, c.r.app) = {}
    THEN {Respond(c, 404)}
    ELSE UNION {
           IF m.exc # NoExc
           THEN {Respond(c, 500)}
           ELSE {ClusterCall([c EXCEPT !.r.items = m.manifests], r,
                             "ui_create", TRUE) :
                    r \in {ApplyK8s(m.manifests, c.cluster, fault) :
                              fault \in ApplyFaults(Len(m.manifests))}}
           : m \in {CreateDeploymentManifests(
                        ManifestBases(c.manifests,
                                      ManifestIds(c.manifests, latest)),
                        NewImage) :
                      latest \in GetApplied(c.deployments, c.r.app)}}

\* lines 398-416: get_current_user_id(token, db) is evaluated before create
UiCreate(c) ==
    IF c.r.token.user = NoUser
    THEN {Respond(c, 500)}
    ELSE Commit(c, [c EXCEPT !.deployments = Create(@, NewDeployment(c.r.app)),
                             !.r.new = Len(c.deployments) + 1,
                             !.r.pc = "ui_get_applied"])

\* line 419
UiGetApplied(c) ==
    {[c EXCEPT !.r.applied = a, !.r.pc = "ui_unset"] :
        a \in GetAppliedResults(c.deployments, c.r.app)}

\* update_deployment_image that leaves the applied Deployment applied
UiUnset_Keep(c) ==
    {Goto(c, "ui_state")}

\* lines 420-421
UiUnset(c) ==
    IF c.r.applied = None
    THEN {Goto(c, "ui_state")}
    ELSE Commit(c, [c EXCEPT !.deployments =
                                UpdateApplied(@, c.r.applied, FALSE),
                             !.r.pc = "ui_state"])

\* lines 423-429
UiState(c) ==
    Commit(c, [c EXCEPT !.deployments =
                           UpdateState(@, c.r.new, c.r.token.user, APPROVAL,
                                       CiComment),
                        !.r.pc = "ui_manifest"])

\* lines 432-440
UiManifest(c) ==
    IF c.r.items = << >>
    THEN {Respond(c, 200)}
    ELSE Commit(c, [c EXCEPT !.manifests =
                                Create(@, NewManifest(c.r.new, Head(c.r.items))),
                             !.r.items = Tail(@)])

----------------------------------------------------------------------------
\* rollback_deployment (POST /{deployment_id}/rollback)

\* rollback_deployment without the check of the target's state
RbBegin_AnyState(c) ==
    IF Get(c.deployments, c.r.id) = None
    THEN {Respond(c, 500)}
    ELSE IF GetApplied(c.deployments,
                       c.deployments[c.r.id].application_id) = {}
    THEN {Respond(c, 500)}
    ELSE UNION {{ClusterCall([c EXCEPT !.r.applied = current], r,
                             "rb_unset", TRUE) :
                    r \in {ApplyK8s(ms, c.cluster, fault) :
                              fault \in ApplyFaults(Len(ms))},
                    current \in GetApplied(c.deployments,
                                   c.deployments[c.r.id].application_id)} :
                 ms \in {ManifestBases(c.manifests,
                                       ManifestIds(c.manifests, c.r.id))}}

\* lines 462-478: every HTTPException raised here is caught by the handler's
\* own except clause and answered as 500
RbBegin(c) ==
    IF Get(c.deployments, c.r.id) = None
    THEN {Respond(c, 500)}
    ELSE IF \/ GetApplied(c.deployments,
                          c.deployments[c.r.id].application_id) = {}
            \/ c.deployments[c.r.id].state # APPROVAL
    THEN {Respond(c, 500)}
    ELSE UNION {{ClusterCall([c EXCEPT !.r.applied = current], r,
                             "rb_unset", TRUE) :
                    r \in {ApplyK8s(ms, c.cluster, fault) :
                              fault \in ApplyFaults(Len(ms))},
                    current \in GetApplied(c.deployments,
                                   c.deployments[c.r.id].application_id)} :
                 ms \in {ManifestBases(c.manifests,
                                       ManifestIds(c.manifests, c.r.id))}}

\* rollback_deployment that leaves the current Deployment applied
RbUnset_Keep(c) ==
    Commit(c, Goto(c, "rb_set"))

\* line 480
RbUnset(c) ==
    Commit(c, [c EXCEPT !.deployments = UpdateApplied(@, c.r.applied, FALSE),
                        !.r.pc = "rb_set"])

\* lines 481-484
RbSet(c) ==
    Commit(c, Respond([c EXCEPT !.deployments =
                           UpdateApplied(@, c.r.id, TRUE)], 200))

----------------------------------------------------------------------------
\* delete_application (DELETE /applications/{app_id})

\* applications.py lines 165-180
DaBegin(c) ==
    IF ~c.r.admin
    THEN {Respond(c, 403)}
    ELSE IF GetApplication(c.applications, c.r.app) = None
    THEN {Respond(c, 404)}
    ELSE {[c EXCEPT !.r.pc = "da_deployment",
                    !.r.todo = GetByApplication(c.deployments, c.r.app)]}

\* applications.py lines 182-185: the next deployment's manifests, delete_k8s
\* (in todo, a 0 separates the manifest ids of the deployment at hand from
\* the ids of the deployments still to come)
DaDeployment(c) ==
    IF c.r.todo = << >>
    THEN {Goto(c, "da_application")}
    ELSE UNION {{ClusterCall([c EXCEPT !.r.id = Head(c.r.todo),
                                       !.r.todo = ids \o <<0>>
                                                      \o Tail(c.r.todo)],
                             r, "da_manifest", TRUE) :
                    r \in {DeleteK8s(ManifestBases(c.manifests, ids),
                                     c.cluster, fault) :
                              fault \in DeleteFaults(Len(ids))}} :
                 ids \in {GetByDeployment(c.manifests, Head(c.r.todo))}}

\* applications.py lines 187-191: soft-delete the manifests, then the
\* deployment
DaManifest(c) ==
    IF Head(c.r.todo) # 0
    THEN Commit(c, [c EXCEPT !.manifests = SoftDelete(@, Head(c.r.todo)),
                             !.r.todo = Tail(@)])
    ELSE Commit(c, [c EXCEPT !.deployments = SoftDelete(@, c.r.id),
                             !.r.todo = Tail(@),
                             !.r.pc = "da_deployment"])

\* applications.py line 193
DaApplication(c) ==
    Commit(c, Respond([c EXCEPT !.applications[c.r.app].deleted = TRUE], 200))

----------------------------------------------------------------------------
\* request_application (POST /applications/)

\* a new Application row: column defaults of models.Application
NewApplication(name) ==
    [name |-> name, deleted |-> FALSE, is_approved |-> FALSE]

\* CRUDApplication.get_by_name: the ids of the rows the query matches
GetByName(apps, name) ==
    {i \in 1..Len(apps) : apps[i].name = name /\ ~apps[i].deleted}

\* applications.py lines 51-54: the duplicate-name check
RaCheck(c) ==
    IF GetByName(c.applications, c.r.name) # {}
    THEN {Respond(c, 400)}
    ELSE {Goto(c, "ra_create")}

\* applications.py lines 56-59: create, outside any try block
RaCreate(c) ==
    {Respond([c EXCEPT !.applications = Create(@, NewApplication(c.r.name)),
                       !.r.new = Len(c.applications) + 1,
                       !.r.writes = @ + 1], 201),
     Respond(c, 500)}

----------------------------------------------------------------------------
\* the contexts the next step of the request of context c may produce
Steps(c) ==
    CASE c.r.pc = "rd_check"       -> RdCheck(c)
      [] c.r.pc = "rd_create"      -> RdCreate(c)
      [] c.r.pc = "rd_manifest"    -> RdManifest(c)
      [] c.r.pc = "ud_update"      -> UdUpdate(c)
      [] c.r.pc = "ud_remove"      -> UdRemove(c)
      [] c.r.pc = "ud_create"      -> UdCreate(c)
      [] c.r.pc = "ud_state"       -> UdState(c)
      [] c.r.pc = "us_begin"       -> UsBegin(c)
      [] c.r.pc = "us_get_applied" -> UsGetApplied(c)
      [] c.r.pc = "us_unset"       -> UsUnset(c)
      [] c.r.pc = "us_state"       -> UsState(c)
      [] c.r.pc = "us_approve"     -> UsApprove(c)
      [] c.r.pc = "ui_begin"       -> UiBegin(c)
      [] c.r.pc = "ui_create"      -> UiCreate(c)
      [] c.r.pc = "ui_get_applied" -> UiGetApplied(c)
      [] c.r.pc = "ui_unset"       -> UiUnset(c)
      [] c.r.pc = "ui_state"       -> UiState(c)
      [] c.r.pc = "ui_manifest"    -> UiManifest(c)
      [] c.r.pc = "rb_begin"       -> RbBegin(c)
      [] c.r.pc = "rb_unset"       -> RbUnset(c)
      [] c.r.pc = "rb_set"         -> RbSet(c)
      [] c.r.pc = "da_begin"       -> DaBegin(c)
      [] c.r.pc = "da_deployment"  -> DaDeployment(c)
      [] c.r.pc = "da_manifest"    -> DaManifest(c)
      [] c.r.pc = "da_application" -> DaApplication(c)
      [] c.r.pc = "ra_check"       -> RaCheck(c)
      [] c.r.pc = "ra_create"      -> RaCreate(c)
      [] OTHER                     -> {}

\* the contexts in which the request of context c may end when no other
\* request runs meanwhile
RECURSIVE Run(_)
Run(c) ==
    IF c.r.pc = "done" THEN {c}
    ELSE UNION {Run(d) : d \in Steps(c)}

\* the request records with which a request starts
RequestDeployment(app, ms) ==
    [Idle EXCEPT !.op = "request_deployment", !.pc = "rd_check",
                 !.app = app, !.in_manifests = ms, !.items = ms]

UpdateDeployment(id, is_request, admin, ms) ==
    [Idle EXCEPT !.op = "update_deployment", !.pc = "ud_update", !.id = id,
                 !.is_request = is_request, !.admin = admin,
                 !.in_manifests = ms, !.items = ms]

UpdateStateRequest(id, state, comment, admin) ==
    [Idle EXCEPT !.op = "update_state", !.pc = "us_begin", !.id = id,
                 !.state = state, !.comment = comment, !.admin = admin]

UpdateDeploymentImage(app, token) ==
    [Idle EXCEPT !.op = "update_deployment_image", !.pc = "ui_begin",
                 !.app = app, !.token = token]

RollbackDeployment(id) ==
    [Idle EXCEPT !.op = "rollback_deployment", !.pc = "rb_begin", !.id = id]

DeleteApplication(app, admin) ==
    [Idle EXCEPT !.op = "delete_application", !.pc = "da_begin",
                 !.app = app, !.admin = admin]

RequestApplication(name) ==
    [Idle EXCEPT !.op = "request_application", !.pc = "ra_check",
                 !.name = name]

(***************************************************************************)
(* Part 4.  Specifications.                                                *)
(***************************************************************************)
\* SpecApply: the manifest list under test, whether the call before the
\* latest one was an apply_k8s that raised nothing, and the latest call
NoResult ==
    [fault |-> NoFault, before |-> EmptyCluster, applied_files |-> << >>,
     files |-> << >>, calls |-> << >>, exc |-> NoExc]
NoCalls == [manifests |-> << >>, n |-> 0, prev_ok |-> FALSE, last |-> NoResult]

Init ==
    /\ applications = InitApplications
    /\ deployments = << >>
    /\ manifests = << >>
    /\ cluster = EmptyCluster
    /\ req = [p \in Procs |-> Idle]
    /\ served = 0
    /\ k8s = NoCalls

\* the context of a request record r in the current state
Ctx(r) ==
    [applications |-> applications, deployments |-> deployments,
     manifests |-> manifests, cluster |-> cluster, r |-> r]

\* the state after worker p's request has reached context c
Install(p, c) ==
    /\ applications' = c.applications
    /\ deployments' = c.deployments
    /\ manifests' = c.manifests
    /\ cluster' = c.cluster
    /\ req' = [req EXCEPT ![p] = c.r]
    /\ UNCHANGED k8s

InFlight(q) == req[q].pc \notin {"idle", "done"}

\* rows an in-flight request may still create
PendingDeployments(q) ==
    IF /\ InFlight(q)
       /\ req[q].op \in {"request_deployment", "update_deployment_image"}
       /\ req[q].new = None
    THEN 1 ELSE 0

PendingManifests(q) ==
    IF InFlight(q) THEN Len(req[q].items) ELSE 0

RoomForDeployment ==
    Len(deployments) + PendingDeployments(1) + PendingDeployments(2)
        < MaxDeployments

RoomForManifests(n) ==
    Len(manifests) + PendingManifests(1) + PendingManifests(2) + n
        <= MaxManifests

MostManifests(app) ==
    Max({0} \cup {Len(ManifestIds(manifests, i)) :
                    i \in {j \in 1..Len(deployments) :
                             deployments[j].application_id = app}})

\* worker p serves request r from its first step to its response while no
\* other request runs
Serve(p, r) ==
    /\ req[p].pc = "idle"
    /\ served < MaxRequests
    /\ served' = served + 1
    /\ \E c \in Run(Ctx(r)) : Install(p, c)

ServeRequestDeployment(p) ==
    \E app \in AppIds, ms \in ManifestInputs :
       /\ RoomForDeployment
       /\ RoomForManifests(Len(ms))
       /\ Serve(p, RequestDeployment(app, ms))

ServeUpdateDeployment(p) ==
    \E id \in 1..Len(deployments), is_request \in BOOLEAN, admin \in BOOLEAN,
       ms \in ManifestInputs :
       /\ RoomForManifests(Len(ms))
       /\ Serve(p, UpdateDeployment(id, is_request, admin, ms))

ServeUpdateState(p) ==
    \E id \in 1..Len(deployments), state \in DeploymentState,
       comment \in Comments, admin \in BOOLEAN :
       Serve(p, UpdateStateRequest(id, state, comment, admin))

ServeUpdateDeploymentImage(p) ==
    \E app \in AppIds, token \in Tokens :
       /\ RoomForDeployment
       /\ RoomForManifests(MostManifests(app))
       /\ Serve(p, UpdateDeploymentImage(app, token))

ServeRollbackDeployment(p) ==
    \E id \in 1..Len(deployments) : Serve(p, RollbackDeployment(id))

ServeDeleteApplication(p) ==
    \E app \in AppIds, admin \in BOOLEAN :
       Serve(p, DeleteApplication(app, admin))

\* the client has the response; worker p is free again
Return(p) ==
    /\ req[p].pc = "done"
    /\ req' = [req EXCEPT ![p] = Idle]
    /\ UNCHANGED <<applications, deployments, manifests, cluster, served, k8s>>

\* Spec: requests are served one at a time
Next ==
    \/ Return(1)
    \/ ServeRequestDeployment(1)
    \/ ServeUpdateDeployment(1)
    \/ ServeUpdateState(1)
    \/ ServeUpdateDeploymentImage(1)
    \/ ServeRollbackDeployment(1)
    \/ ServeDeleteApplication(1)

Spec == Init /\ [][Next]_vars

\* SpecConc: two workers serve deployment requests and administrators'
\* approvals concurrently, their steps interleaved
InFlightOf(app) ==
    {i \in 1..Len(deployments) : /\ deployments[i].application_id = app
                                 /\ ~deployments[i].deleted
                                 /\ deployments[i].state \in {REQUEST, RETURN}}

Start(p, r) ==
    /\ req[p].pc = "idle"
    /\ served < MaxRequests
    /\ served' = served + 1
    /\ req' = [q \in Procs |->
                  IF q = p
                  THEN [r EXCEPT !.overlap = InFlight(3 - p),
                                 !.clear = (InFlightOf(r.app) = {})]
                  ELSE [req[q] EXCEPT !.overlap = InFlight(q)]]
    /\ UNCHANGED <<applications, deployments, manifests, cluster, k8s>>

StartRequestDeployment(p) ==
    \E app \in AppIds, ms \in ManifestInputs :
       /\ RoomForDeployment
       /\ RoomForManifests(Len(ms))
       /\ Start(p, RequestDeployment(app, ms))

StartApproval(p) ==
    \E id \in 1..Len(deployments) :
       Start(p, UpdateStateRequest(id, APPROVAL, NoComment, TRUE))

StepOf(p) ==
    /\ InFlight(p)
    /\ \E c \in Steps(Ctx(req[p])) : Install(p, c)
    /\ UNCHANGED served

NextConc ==
    \E p \in Procs :
       \/ StartRequestDeployment(p)
       \/ StartApproval(p)
       \/ StepOf(p)
       \/ Return(p)

SpecConc == Init /\ [][NextConc]_vars

\* SpecApply: apply_k8s is called twice in succession on one manifest list,
\* against a cluster that starts empty and may reject any single call
Pool == {mNamespace, mService, mDeployment, mWorker, mIngress, mConfigMap}

InputLists ==
    {ms \in UNION {[1..n -> Pool] : n \in 0..MaxLen} :
        \A i, j \in 1..Len(ms) : i # j => ms[i] # ms[j]}

InitApply ==
    /\ applications = InitApplications
    /\ deployments = << >>
    /\ manifests = << >>
    /\ cluster = EmptyCluster
    /\ req = [p \in Procs |-> Idle]
    /\ served = 0
    /\ k8s \in {[NoCalls EXCEPT !.manifests = ms] : ms \in InputLists}

CallApplyK8s ==
    /\ k8s.n < 2
    /\ \E fault \in ApplyFaults(Len(k8s.manifests)) :
          \E r \in {ApplyK8s(k8s.manifests, cluster, fault)} :
              /\ cluster' = r.cluster
              /\ k8s' = [k8s EXCEPT
                           !.n = @ + 1,
                           !.prev_ok = (k8s.n > 0 /\ k8s.last.exc = NoExc),
                           !.last = [fault |-> fault, before |-> cluster,
                                     applied_files |-> r.applied_files,
                                     files |-> r.files, calls |-> r.calls,
                                     exc |-> r.exc]]
              /\ UNCHANGED <<applications, deployments, manifests, req,
                             served>>

NextApply == CallApplyK8s

SpecApply == InitApply /\ [][NextApply]_vars

\* SpecParse: as SpecApply, on lists that may hold a manifest whose content
\* does not parse and a manifest without a kind
ParsePool == {mBroken, mNoKind, mNamespace, mService, mDeployment}

ParseLists ==
    {ms \in UNION {[1..n -> ParsePool] : n \in 0..MaxLen} :
        \A i, j \in 1..Len(ms) : i # j => ms[i] # ms[j]}

InitParse ==
    /\ applications = InitApplications
    /\ deployments = << >>
    /\ manifests = << >>
    /\ cluster = EmptyCluster
    /\ req = [p \in Procs |-> Idle]
    /\ served = 0
    /\ k8s \in {[NoCalls EXCEPT !.manifests = ms] : ms \in ParseLists}

NextParse == CallApplyK8s

SpecParse == InitParse /\ [][NextParse]_vars

\* SpecImage: apply_deployment_update is called once with a new image on
\* the manifest list of an applied Deployment, against a cluster that holds
\* the list's resources and may reject any single call
ImagePool == {mNamespace, mService, mDeployment, mWorker, mBare}

ImageLists ==
    {ms \in UNION {[1..n -> ImagePool] : n \in 0..MaxLen} :
        \A i, j \in 1..Len(ms) : i # j => ms[i] # ms[j]}

InitImage ==
    /\ applications = InitApplications
    /\ deployments = << >>
    /\ manifests = << >>
    /\ req = [p \in Procs |-> Idle]
    /\ served = 0
    /\ \E ms \in ImageLists :
          /\ k8s = [NoCalls EXCEPT !.manifests = ms]
          /\ cluster = [key \in {ResourceKey(ms[i].content.kind,
                                             ms[i].content.name,
                                             ms[i].content.namespace) :
                                    i \in 1..Len(ms)} |->
                           (CHOOSE m \in ImagePool :
                               ResourceKey(m.content.kind, m.content.name,
                                           m.content.namespace) = key).content]

CallApplyDeploymentUpdate ==
    /\ k8s.n = 0
    /\ \E fault \in ApplyFaults(Len(k8s.manifests)) :
          \E r \in {ApplyDeploymentUpdate(k8s.manifests, NewImage, cluster,
                                          fault)} :
              /\ cluster' = r.cluster
              /\ k8s' = [k8s EXCEPT
                           !.n = 1,
                           !.last = [fault |-> fault, before |-> cluster,
                                     new_manifests |-> r.manifests,
                                     calls |-> r.calls, exc |-> r.exc]]
              /\ UNCHANGED <<applications, deployments, manifests, req,
                             served>>

NextImage == CallApplyDeploymentUpdate

SpecImage == InitImage /\ [][NextImage]_vars

\* SpecAge: _calculate_age is called once on a creation timestamp that is
\* missing or lies d days, h hours, m minutes and s seconds before now
\* (times in seconds)
AgeInputs ==
    [d : 0..MaxDays, h : 0..23, m : 0..59, s : {0, 59}, missing : BOOLEAN]

InitAge ==
    /\ applications = InitApplications
    /\ deployments = << >>
    /\ manifests = << >>
    /\ cluster = EmptyCluster
    /\ req = [p \in Procs |-> Idle]
    /\ served = 0
    /\ \E i \in AgeInputs, at \in {0, 86399} :
          k8s = [n |-> 0, input |-> i,
                 creation_timestamp |-> IF i.missing THEN NoTimestamp
                                        ELSE Timestamp(at),
                 now |-> at + TotalSeconds(i.d, i.h * 3600 + i.m * 60 + i.s),
                 age |-> ""]

CallCalculateAge ==
    /\ k8s.n = 0
    /\ k8s' = [k8s EXCEPT !.n = 1,
                          !.age = CalculateAge(k8s.creation_timestamp, k8s.now)]
    /\ UNCHANGED <<applications, deployments, manifests, cluster, req, served>>

NextAge == CallCalculateAge

SpecAge == InitAge /\ [][NextAge]_vars

\* SpecWait: one call of _wait_for_resource_ready, step by step.  The clock
\* is in seconds; a poll takes 0..MaxPollSeconds seconds and the thread is
\* always scheduled again (weak fairness).
WaitKinds == {"Deployment", "Service", "Ingress", "ConfigMap"}
Timeouts == {0, 12, DefaultTimeout}

InitWait ==
    /\ applications = InitApplications
    /\ deployments = << >>
    /\ manifests = << >>
    /\ cluster = EmptyCluster
    /\ req = [p \in Procs |-> Idle]
    /\ served = 0
    /\ \E kind \in WaitKinds, timeout \in Timeouts :
          k8s = [pc |-> "while", kind |-> kind, timeout |-> timeout,
                 start_time |-> 0, clock |-> 0, polls |-> 0,
                 poll_at |-> 0, prev_poll_end |-> 0, poll_end |-> 0,
                 answer |-> CHOOSE a \in PollAnswers : ~a.found /\ ~a.error]

\* line 767: the loop condition; line 793 when it fails
WaitWhile ==
    /\ k8s.pc = "while"
    /\ k8s' = [k8s EXCEPT !.pc = IF k8s.clock - k8s.start_time < k8s.timeout
                                 THEN "poll" ELSE "TimeoutError"]
    /\ UNCHANGED <<applications, deployments, manifests, cluster, req, served>>

\* lines 768-791: one poll
WaitPoll ==
    /\ k8s.pc = "poll"
    /\ \E ans \in PollAnswers, took \in 0..MaxPollSeconds :
          k8s' = [k8s EXCEPT !.pc = IF PollReady(k8s.kind, ans)
                                    THEN "returned" ELSE "sleep",
                             !.polls = IF @ < 2 THEN @ + 1 ELSE @,
                             !.poll_at = k8s.clock,
                             !.prev_poll_end = k8s.poll_end,
                             !.poll_end = k8s.clock + took,
                             !.clock = k8s.clock + took,
                             !.answer = ans]
    /\ UNCHANGED <<applications, deployments, manifests, cluster, req, served>>

\* line 792
WaitSleep ==
    /\ k8s.pc = "sleep"
    /\ k8s' = [k8s EXCEPT !.pc = "while", !.clock = Sleep(k8s.clock)]
    /\ UNCHANGED <<applications, deployments, manifests, cluster, req, served>>

NextWait == WaitWhile \/ WaitPoll \/ WaitSleep

SpecWait == InitWait /\ [][NextWait]_vars /\ WF_vars(NextWait)

\* SpecDelete: delete_k8s is called twice in succession on one manifest
\* list, against a cluster that starts with none or all of the list's
\* resources and may reject any single call
ClusterOf(ms) ==
    [key \in {ResourceKey(ms[i].content.kind, ms[i].content.name,
                          ms[i].content.namespace) : i \in 1..Len(ms)} |->
        ms[CHOOSE i \in 1..Len(ms) :
              ResourceKey(ms[i].content.kind, ms[i].content.name,
                          ms[i].content.namespace) = key].content]

InitDelete ==
    /\ applications = InitApplications
    /\ deployments = << >>
    /\ manifests = << >>
    /\ req = [p \in Procs |-> Idle]
    /\ served = 0
    /\ \E ms \in InputLists :
          /\ k8s = [NoCalls EXCEPT !.manifests = ms]
          /\ cluster \in {EmptyCluster, ClusterOf(ms)}

CallDeleteK8s ==
    /\ k8s.n < 2
    /\ \E fault \in DeleteFaults(Len(k8s.manifests)) :
          \E r \in {DeleteK8s(k8s.manifests, cluster, fault)} :
              /\ cluster' = r.cluster
              /\ k8s' = [k8s EXCEPT
                           !.n = @ + 1,
                           !.prev_ok = (k8s.n > 0 /\ k8s.last.exc = NoExc),
                           !.last = [fault |-> fault, before |-> cluster,
                                     calls |-> r.calls,
                                     answers |-> r.answers, exc |-> r.exc]]
              /\ UNCHANGED <<applications, deployments, manifests, req,
                             served>>

NextDelete == CallDeleteK8s

SpecDelete == InitDelete /\ [][NextDelete]_vars

\* SpecStatus: one status query, of one Application or of the whole list,
\* against a cluster that answers each Application's reads in any way
InitStatus ==
    /\ applications = InitApplications
    /\ deployments = << >>
    /\ manifests = << >>
    /\ cluster = EmptyCluster
    /\ req = [p \in Procs |-> Idle]
    /\ served = 0
    /\ \E n \in 0..MaxApps :
          \E answers \in [1..n -> StatusAnswers] :
             k8s = [apps |-> [i \in 1..n |-> i], answers |-> answers,
                    n |-> 0,
                    last |-> [op |-> "none", app |-> None,
                              statuses |-> << >>, exc |-> NoExc]]

CallGetApplicationStatus ==
    /\ k8s.n = 0
    /\ \E i \in 1..Len(k8s.apps) :
          \E r \in {GetApplicationStatus(k8s.apps[i],
                                         k8s.answers[k8s.apps[i]])} :
             k8s' = [k8s EXCEPT
                       !.n = 1,
                       !.last = [op |-> "get_application_status",
                                 app |-> k8s.apps[i],
                                 statuses |-> IF r.exc = NoExc
                                              THEN <<r.status>> ELSE << >>,
                                 exc |-> r.exc]]
    /\ UNCHANGED <<applications, deployments, manifests, cluster, req,
                   served>>

CallGetAllApplicationsStatus ==
    /\ k8s.n = 0
    /\ \E r \in {GetAllApplicationsStatus(k8s.apps, k8s.answers, 1, << >>)} :
          k8s' = [k8s EXCEPT
                    !.n = 1,
                    !.last = [op |-> "get_all_applications_status",
                              app |-> None, statuses |-> r.statuses,
                              exc |-> r.exc]]
    /\ UNCHANGED <<applications, deployments, manifests, cluster, req,
                   served>>

NextStatus ==
    \/ CallGetApplicationStatus
    \/ CallGetAllApplicationsStatus

SpecStatus == InitStatus /\ [][NextStatus]_vars

\* SpecApps: two workers serve requests that create and delete Applications,
\* their steps interleaved; the Application table starts empty
AppNames == {"alpha", "beta"}

InitApps ==
    /\ applications = << >>
    /\ deployments = << >>
    /\ manifests = << >>
    /\ cluster = EmptyCluster
    /\ req = [p \in Procs |-> Idle]
    /\ served = 0
    /\ k8s = NoCalls

StartRequestApplication(p) ==
    \E name \in AppNames : Start(p, RequestApplication(name))

StartDeleteApplication(p) ==
    \E app \in 1..Len(applications), admin \in BOOLEAN :
       Start(p, DeleteApplication(app, admin))

NextApps ==
    \E p \in Procs :
       \/ StartRequestApplication(p)
       \/ StartDeleteApplication(p)
       \/ StepOf(p)
       \/ Return(p)

SpecApps == InitApps /\ [][NextApps]_vars

\* SpecFrame: worker p serves the Deployment requests of Application p, one
\* request at a time, and the steps of the two workers are interleaved
OwnIds(p) ==
    {i \in 1..Len(deployments) : deployments[i].application_id = p}

StartOwnRequestDeployment(p) ==
    \E ms \in ManifestInputs :
       /\ RoomForDeployment
       /\ RoomForManifests(Len(ms))
       /\ Start(p, RequestDeployment(p, ms))

StartOwnUpdateDeployment(p) ==
    \E id \in OwnIds(p), is_request \in BOOLEAN, ms \in ManifestInputs :
       /\ RoomForManifests(Len(ms))
       /\ Start(p, UpdateDeployment(id, is_request, FALSE, ms))

StartOwnUpdateState(p) ==
    \E id \in OwnIds(p), state \in {RETURN, APPROVAL} :
       Start(p, UpdateStateRequest(id, state, "comment", TRUE))

StartOwnUpdateDeploymentImage(p) ==
    /\ RoomForDeployment
    /\ RoomForManifests(MostManifests(p))
    /\ Start(p, UpdateDeploymentImage(p, [secret |-> TRUE, user |-> BotId]))

StartOwnRollbackDeployment(p) ==
    \E id \in OwnIds(p) : Start(p, RollbackDeployment(id))

NextFrame ==
    \E p \in Procs :
       \/ StartOwnRequestDeployment(p)
       \/ StartOwnUpdateDeployment(p)
       \/ StartOwnUpdateState(p)
       \/ StartOwnUpdateDeploymentImage(p)
       \/ StartOwnRollbackDeployment(p)
       \/ StepOf(p)
       \/ Return(p)

SpecFrame == Init /\ [][NextFrame]_vars

(***************************************************************************)
(* Part 5.  Properties.                                                    *)
(***************************************************************************)
\* the non-deleted Deployment ids of an Application
DeploymentsOf(app) ==
    {i \in 1..Len(deployments) : /\ deployments[i].application_id = app
                                 /\ ~deployments[i].deleted}

\* worker 1 serves a whole request in this step (Spec)
Served == req[1].pc = "idle" /\ req'[1].pc = "done"

\* both workers hold the response of a request, and the two requests
\* overlapped in time (SpecConc)
BothDone(op) ==
    /\ req[1].pc = "done" /\ req[2].pc = "done"
    /\ req[1].op = op /\ req[2].op = op
    /\ req[1].overlap /\ req[2].overlap

----------------------------------------------------------------------------
\* C1 (SpecConc): once two overlapping approval requests for two different
\* Deployments of one Application have both finished, at most one
\* non-deleted Deployment of that Application has is_applied = true.
C1_ConcurrentApprovalsOneApplied ==
    (/\ BothDone("update_state")
     /\ req[1].id # req[2].id
     /\ deployments[req[1].id].application_id
            = deployments[req[2].id].application_id)
    => Cardinality(GetApplied(deployments,
                              deployments[req[1].id].application_id)) <= 1

----------------------------------------------------------------------------
\* C2 (Spec): with requests served one at a time, every reachable state has
\* at most one non-deleted Deployment with is_applied = true per Application.
C2_AtMostOneApplied ==
    \A app \in AppIds : Cardinality(GetApplied(deployments, app)) <= 1

\* an Application whose applied Deployment has been replaced: one applied
\* Deployment, and another non-deleted one that was approved and is no
\* longer applied
C2_Witness ==
    \E app \in AppIds :
       /\ Cardinality(GetApplied(deployments, app)) = 1
       /\ \E i \in DeploymentsOf(app) : /\ deployments[i].state = APPROVAL
                                       /\ ~deployments[i].is_applied

----------------------------------------------------------------------------
\* C3 (Spec): when P is the applied Deployment of an Application and the
\* approval of another Deployment D of that Application answers 200 (the
\* cluster apply and every persistence step succeeded), then afterwards D
\* has is_applied = true, state = APPROVAL and admin_id = the approving
\* admin, and P has is_applied = false.
C3_ApprovalReplacesApplied ==
    [][\A P \in 1..Len(deployments) :
          (/\ Served
           /\ req'[1].op = "update_state"
           /\ req'[1].state = APPROVAL
           /\ req'[1].status = 200
           /\ P # req'[1].id
           /\ P \in GetApplied(deployments,
                               deployments[req'[1].id].application_id))
          => /\ deployments'[req'[1].id].is_applied
             /\ deployments'[req'[1].id].state = APPROVAL
             /\ deployments'[req'[1].id].admin_id = AdminId
             /\ ~deployments'[P].is_applied]_vars

\* an approval that found another Deployment applied has answered 200
C3_Witness ==
    /\ req[1].pc = "done"
    /\ req[1].op = "update_state"
    /\ req[1].state = APPROVAL
    /\ req[1].status = 200
    /\ req[1].applied \notin {None, req[1].id}
    /\ deployments[req[1].id].is_applied
    /\ ~deployments[req[1].applied].is_applied

----------------------------------------------------------------------------
\* C4 (Spec): when the cluster apply of an approval, a rollback or an image
\* update fails, the request answers with an error status and the three
\* tables are as they were before the request.
C4_ApplyFailureChangesNothing ==
    [][(/\ Served
        /\ \/ req'[1].op = "update_state" /\ req'[1].state = APPROVAL
           \/ req'[1].op = "rollback_deployment"
           \/ req'[1].op = "update_deployment_image"
        /\ req'[1].cluster_status \notin {0, 200})
       => /\ req'[1].status >= 400
          /\ Store' = Store]_vars

\* an image update whose cluster apply failed
C4_Witness ==
    /\ req[1].pc = "done"
    /\ req[1].op = "update_deployment_image"
    /\ req[1].cluster_status = 500
    /\ req[1].status = 500
    /\ req[1].writes = 0

----------------------------------------------------------------------------
\* C5 (Spec): when an approval fails in a persistence step after its cluster
\* apply succeeded, the Deployment and Application tables are as they were
\* before the request.
C5_PersistenceFailureRollsBack ==
    [][(/\ Served
        /\ req'[1].op = "update_state"
        /\ req'[1].state = APPROVAL
        /\ req'[1].cluster_status = 200
        /\ req'[1].status = 500)
       => /\ deployments' = deployments
          /\ applications' = applications]_vars

----------------------------------------------------------------------------
\* C6 (Spec): in every reachable state, a request_deployment for an
\* Application that has a non-deleted Deployment in REQUEST or RETURN ends
\* with an error status and leaves the Deployment and Manifest tables as
\* they are.
C6_InFlightBlocksRequest ==
    req[1].pc = "idle" =>
       \A app \in AppIds, ms \in ManifestInputs :
          InFlightOf(app) # {} =>
             \A c \in Run(Ctx(RequestDeployment(app, ms))) :
                /\ c.r.status >= 400
                /\ c.deployments = deployments
                /\ c.manifests = manifests

----------------------------------------------------------------------------
\* C7 (Spec): with requests served one at a time, each Application has at
\* most one non-deleted Deployment in REQUEST or RETURN.
C7_AtMostOneInFlight ==
    \A app \in AppIds : Cardinality(InFlightOf(app)) <= 1

----------------------------------------------------------------------------
\* C8 (SpecConc): two overlapping request_deployment calls for one
\* Application that had no Deployment in REQUEST or RETURN when each of them
\* started do not both answer 201.
C8_ConcurrentRequestsNotBoth ==
    (/\ BothDone("request_deployment")
     /\ req[1].app = req[2].app
     /\ req[1].clear /\ req[2].clear)
    => ~(req[1].status = 201 /\ req[2].status = 201)

----------------------------------------------------------------------------
\* C9 (SpecApply): apply_k8s attempts the manifests in the order of the
\* stable partition of its input by kind (Namespace, Service, Deployment,
\* Ingress, other): the files it attempted are a prefix of that order, and
\* all of it when the call raised nothing.
KindRank(m) ==
    CASE KindOf(m.content) = "namespace"  -> 1
      [] KindOf(m.content) = "service"    -> 2
      [] KindOf(m.content) = "deployment" -> 3
      [] KindOf(m.content) = "ingress"    -> 4
      [] OTHER                            -> 5

\* the manifests of ms ordered by kind rank, input order kept inside a rank
StableItems(ms) ==
    SelectSeq(ms, LAMBDA m : KindRank(m) = 1)
       \o SelectSeq(ms, LAMBDA m : KindRank(m) = 2)
       \o SelectSeq(ms, LAMBDA m : KindRank(m) = 3)
       \o SelectSeq(ms, LAMBDA m : KindRank(m) = 4)
       \o SelectSeq(ms, LAMBDA m : KindRank(m) = 5)

\* their file names
StablePartition(ms) ==
    The({[k \in 1..Len(items) |-> items[k].file_name] :
            items \in {StableItems(ms)}})

C9_StablePartitionOrder ==
    k8s.n > 0 =>
       /\ Len(k8s.last.files) <= Len(k8s.manifests)
       /\ k8s.last.files
             = SubSeq(StablePartition(k8s.manifests), 1, Len(k8s.last.files))
       /\ k8s.last.exc = NoExc => Len(k8s.last.files) = Len(k8s.manifests)

\* the input [Ingress, Deployment, Namespace, Service] has been applied
C9_Witness ==
    /\ k8s.manifests = <<mIngress, mDeployment, mNamespace, mService>>
    /\ k8s.n > 0
    /\ k8s.last.exc = NoExc
    /\ k8s.last.files = <<"ns.yaml", "svc.yaml", "dep.yaml", "ing.yaml">>

----------------------------------------------------------------------------
\* C10 (SpecApply): every create or patch call follows a lookup of the same
\* resource; it is a create when the resource was absent at the lookup and a
\* patch when it was present; and an apply_k8s call that meets no cluster
\* fault, right after an apply_k8s call on the same list that raised nothing,
\* raises nothing and creates nothing.
PresentAt(i) ==
    \/ k8s.last.calls[i].key \in DOMAIN k8s.last.before
    \/ \E j \in 1..(i - 1) : /\ k8s.last.calls[j].verb \in {"create", "patch"}
                            /\ k8s.last.calls[j].key = k8s.last.calls[i].key

C10_CreateOrPatch ==
    /\ \A i \in 1..Len(k8s.last.calls) :
          k8s.last.calls[i].verb \in {"create", "patch"} =>
             /\ i > 1
             /\ k8s.last.calls[i - 1] = ReadCall(k8s.last.calls[i].key)
             /\ k8s.last.calls[i].verb = "patch" <=> PresentAt(i)
    /\ (k8s.n = 2 /\ k8s.prev_ok /\ k8s.last.fault = NoFault) =>
          /\ k8s.last.exc = NoExc
          /\ \A i \in 1..Len(k8s.last.calls) :
                k8s.last.calls[i].verb # "create"

\* a list of the four kinds has been applied twice in succession, and the
\* second call patched all four resources
C10_Witness ==
    /\ k8s.n = 2
    /\ k8s.prev_ok
    /\ k8s.last.exc = NoExc
    /\ Len(k8s.manifests) = 4
    /\ Len(k8s.last.calls) = 8
    /\ \A i \in 1..4 : k8s.last.calls[2 * i].verb = "patch"

----------------------------------------------------------------------------
\* the last apply_k8s call was rejected by the cluster: the item the fault
\* was aimed at was reached and the faulted call was issued
ApplyRejected ==
    /\ k8s.n > 0
    /\ k8s.last.fault # NoFault
    /\ k8s.last.exc # NoExc
    /\ k8s.last.fault.item = Len(k8s.last.files)
    /\ KindOf(ApplyOrder(k8s.manifests)[k8s.last.fault.item].content)
          \in CoreKinds
    /\ Len(k8s.last.calls) > 0
    /\ k8s.last.calls[Len(k8s.last.calls)].verb
          \in (IF k8s.last.fault.call = "read" THEN {"read"}
               ELSE {"patch", "create"})

\* C11 (SpecApply): when the cluster rejects a call of apply_k8s with 403
\* the error apply_k8s raises carries status 403, when it rejects with 409
\* the error carries 409, and only another rejection gives the generic 500.
C11_RejectionClassified ==
    ApplyRejected =>
       k8s.last.exc = HTTPException(k8s.last.fault.status)

----------------------------------------------------------------------------
\* the cluster key of a manifest
KeyOf(m) == ResourceKey(m.content.kind, m.content.name, m.content.namespace)

\* the items of the k8s.manifests list in stable-partition order
Ordered == StableItems(k8s.manifests)

\* the first item of `items` whose application fails in the last call: the
\* one the injected fault is aimed at, or the first of a kind the service
\* has no client for; 0 when none fails
FirstFailure(items) ==
    LET F == {k \in 1..Len(items) :
                 \/ k8s.last.fault.item = k
                 \/ KindOf(items[k].content) \notin CoreKinds}
    IN  IF F = {} THEN 0 ELSE Min(F)

FileNames(items) == [k \in 1..Len(items) |-> items[k].file_name]

\* C12 (SpecApply): when the k-th item in apply order fails, apply_k8s
\* raises an error, has attempted exactly the first k items, has issued no
\* cluster call for a later item, leaves the resources of the first k-1
\* items on the cluster, and applied_files is the file names of those k-1
\* items in apply order.
C12_PartialApply ==
    k8s.n > 0 =>
       \A items \in {Ordered} :
          \A k \in {FirstFailure(items)} \ {0} :
             /\ k8s.last.exc # NoExc
             /\ k8s.last.files = FileNames(SubSeq(items, 1, k))
             /\ k8s.last.applied_files = FileNames(SubSeq(items, 1, k - 1))
             /\ \A i \in 1..Len(k8s.last.calls) :
                   \E j \in 1..k : k8s.last.calls[i].key = KeyOf(items[j])
             /\ \A j \in 1..(k - 1) :
                   /\ KeyOf(items[j]) \in DOMAIN cluster
                   /\ \E i \in 1..Len(k8s.last.calls) :
                         /\ k8s.last.calls[i].key = KeyOf(items[j])
                         /\ k8s.last.calls[i].verb \in {"create", "patch"}

\* the third of four items was rejected by the cluster: two files are
\* recorded as applied and one item was never attempted
C12_Witness ==
    /\ k8s.n > 0
    /\ Len(k8s.manifests) = 4
    /\ k8s.last.fault.item = 3
    /\ FirstFailure(Ordered) = 3
    /\ k8s.last.exc # NoExc
    /\ Len(k8s.last.applied_files) = 2
    /\ Len(k8s.last.files) = 3

----------------------------------------------------------------------------
\* C13 (SpecDelete): delete_k8s issues its delete calls in the order of the
\* stable partition of its input by kind (Deployment, Service, Ingress,
\* Namespace, other): the calls issued are a prefix of that order, all of it
\* when the call raised nothing, and a Namespace's delete call comes after
\* the delete call of every Deployment, Service and Ingress of the list.
DeleteRank(m) ==
    CASE KindOf(m.content) = "deployment" -> 1
      [] KindOf(m.content) = "service"    -> 2
      [] KindOf(m.content) = "ingress"    -> 3
      [] KindOf(m.content) = "namespace"  -> 4
      [] OTHER                            -> 5

\* the manifests of ms, ordered by delete rank and then by position
DeletePartition(ms) ==
    LET Before(i, j) == \/ DeleteRank(ms[i]) < DeleteRank(ms[j])
                        \/ DeleteRank(ms[i]) = DeleteRank(ms[j]) /\ i < j
        Place(i) == 1 + Cardinality({j \in 1..Len(ms) : Before(j, i)})
    IN  [k \in 1..Len(ms) |-> ms[CHOOSE i \in 1..Len(ms) : Place(i) = k]]

\* the kinds delete_k8s has a delete call for
HasDeleteCall(m) ==
    KindOf(m.content) \in CoreKinds \cup {"configmap", "secret"}

C13_DeleteOrder ==
    k8s.n > 0 =>
       \A items \in {SelectSeq(DeletePartition(k8s.manifests),
                               HasDeleteCall)} :
          /\ Len(k8s.last.calls) <= Len(items)
          /\ \A i \in 1..Len(k8s.last.calls) :
                k8s.last.calls[i] = DeleteCall(KeyOf(items[i]))
          /\ k8s.last.exc = NoExc => Len(k8s.last.calls) = Len(items)
          /\ \A i \in 1..Len(k8s.last.calls) :
                k8s.last.calls[i].key[1] = "namespace" =>
                   \A m \in 1..Len(k8s.manifests) :
                      DeleteRank(k8s.manifests[m]) < 4 =>
                         \E j \in 1..(i - 1) :
                            k8s.last.calls[j].key
                               = KeyOf(k8s.manifests[m])

\* the input [Namespace, Ingress, Service, Deployment] has been deleted
C13_Witness ==
    /\ k8s.manifests = <<mNamespace, mIngress, mService, mDeployment>>
    /\ k8s.n > 0
    /\ k8s.last.exc = NoExc
    /\ k8s.last.calls = <<DeleteCall(KeyOf(mDeployment)),
                          DeleteCall(KeyOf(mService)),
                          DeleteCall(KeyOf(mIngress)),
                          DeleteCall(KeyOf(mNamespace))>>
    /\ k8s.last.answers = <<200, 200, 200, 200>>

----------------------------------------------------------------------------
\* none of the resources of the k8s.manifests list was on the cluster when
\* the last delete_k8s call began
NoneOnCluster ==
    \A i \in 1..Len(k8s.manifests) :
       KeyOf(k8s.manifests[i]) \notin DOMAIN k8s.last.before

\* C14 (SpecDelete): a delete_k8s call that meets no rejection other than
\* not found, on a list none of whose resources is on the cluster, issues
\* the delete call of every item, is answered 404 each time and raises
\* nothing; and a delete_k8s call right after one on the same list that
\* raised nothing finds none of the resources and raises nothing either.
C14_DeleteIdempotent ==
    /\ (k8s.n > 0 /\ k8s.last.fault = NoFault /\ NoneOnCluster) =>
          /\ k8s.last.exc = NoExc
          /\ Len(k8s.last.calls)
                = Len(SelectSeq(k8s.manifests, HasDeleteCall))
          /\ \A i \in 1..Len(k8s.last.answers) : k8s.last.answers[i] = 404
          /\ cluster = k8s.last.before
    /\ (k8s.n = 2 /\ k8s.prev_ok) => NoneOnCluster

\* a list of four resources has been deleted twice in succession, and every
\* delete call of the second run was answered 404
C14_Witness ==
    /\ k8s.n = 2
    /\ k8s.prev_ok
    /\ k8s.last.fault = NoFault
    /\ k8s.last.exc = NoExc
    /\ Len(k8s.manifests) = 4
    /\ k8s.last.answers = <<404, 404, 404, 404>>
    /\ cluster = EmptyCluster

----------------------------------------------------------------------------
\* C15 (SpecDelete): a delete_k8s call in which the cluster rejected a
\* delete call with a status other than 404 has still issued the delete
\* call of every item of the list.
C15_AllAttempted ==
    (/\ k8s.n > 0
     /\ \E i \in 1..Len(k8s.last.answers) :
           k8s.last.answers[i] \notin {200, 404})
    => Len(k8s.last.calls) = Len(SelectSeq(k8s.manifests, HasDeleteCall))

----------------------------------------------------------------------------
\* C16 (Spec): a rollback whose target Deployment does not exist, whose
\* target's Application has no applied Deployment, or whose target is not in
\* APPROVAL state answers with an error status, makes no cluster call and
\* leaves the cluster and the Deployment table as they were.
C16_RollbackRejected ==
    [][(/\ Served
        /\ req'[1].op = "rollback_deployment"
        /\ \/ Get(deployments, req'[1].id) = None
           \/ GetApplied(deployments,
                         deployments[req'[1].id].application_id) = {}
           \/ deployments[req'[1].id].state # APPROVAL)
       => /\ req'[1].status >= 400
          /\ req'[1].cluster_status = 0
          /\ cluster' = cluster
          /\ deployments' = deployments]_vars

\* a rollback to a Deployment in REQUEST state, of an Application that has
\* an applied Deployment, has been rejected without a cluster call
C16_Witness ==
    /\ req[1].pc = "done"
    /\ req[1].op = "rollback_deployment"
    /\ req[1].status >= 400
    /\ req[1].cluster_status = 0
    /\ Get(deployments, req[1].id) # None
    /\ deployments[req[1].id].state = REQUEST
    /\ GetApplied(deployments, deployments[req[1].id].application_id) # {}

----------------------------------------------------------------------------
\* C17 (Spec): when a rollback to Deployment T answers 200 and another
\* Deployment C was the applied Deployment of T's Application, then
\* afterwards T has is_applied = true and C has is_applied = false, and
\* every Deployment has the state, admin_id and comment it had before.
C17_RollbackSwapsApplied ==
    [][\A C \in 1..Len(deployments) :
          (/\ Served
           /\ req'[1].op = "rollback_deployment"
           /\ req'[1].status = 200
           /\ C # req'[1].id
           /\ C \in GetApplied(deployments,
                               deployments[req'[1].id].application_id))
          => /\ deployments'[req'[1].id].is_applied
             /\ ~deployments'[C].is_applied
             /\ Len(deployments') = Len(deployments)
             /\ \A i \in 1..Len(deployments) :
                   /\ deployments'[i].state = deployments[i].state
                   /\ deployments'[i].admin_id = deployments[i].admin_id
                   /\ deployments'[i].comment = deployments[i].comment]_vars

\* a rollback that found another Deployment applied has answered 200
C17_Witness ==
    /\ req[1].pc = "done"
    /\ req[1].op = "rollback_deployment"
    /\ req[1].status = 200
    /\ req[1].applied \notin {None, req[1].id}
    /\ deployments[req[1].id].is_applied
    /\ ~deployments[req[1].applied].is_applied

----------------------------------------------------------------------------
\* C18 (Spec): an administrator's approval of an existing Deployment whose
\* state is RETURN or APPROVAL answers with an error status, makes no
\* cluster call and leaves the three tables and the cluster as they were.
C18_ApproveOnlyRequest ==
    [][(/\ Served
        /\ req'[1].op = "update_state"
        /\ req'[1].state = APPROVAL
        /\ req'[1].admin
        /\ Get(deployments, req'[1].id) # None
        /\ deployments[req'[1].id].state # REQUEST)
       => /\ req'[1].status >= 400
          /\ req'[1].cluster_status = 0
          /\ cluster' = cluster
          /\ Store' = Store]_vars

----------------------------------------------------------------------------
\* C19 (Spec): a Deployment that is in APPROVAL state is in APPROVAL state
\* after every step.
C19_ApprovalIsFinal ==
    [][\A i \in 1..Len(deployments) :
          deployments[i].state = APPROVAL
             => deployments'[i].state = APPROVAL]_vars

----------------------------------------------------------------------------
\* C20 (Spec): a re-request (update_deployment with is_request = true) by a
\* caller who is not an administrator, for an existing Deployment in REQUEST
\* or APPROVAL state, answers with an error status and leaves the three
\* tables as they were.
C20_ReRequestOnlyFromReturn ==
    [][(/\ Served
        /\ req'[1].op = "update_deployment"
        /\ req'[1].is_request
        /\ ~req'[1].admin
        /\ Get(deployments, req'[1].id) # None
        /\ deployments[req'[1].id].state \in {REQUEST, APPROVAL})
       => /\ req'[1].status >= 400
          /\ Store' = Store]_vars

----------------------------------------------------------------------------
\* C21 (Spec): when an update_state request with state RETURN answers 200,
\* no cluster call was made and the cluster is unchanged, the Deployment has
\* state RETURN, admin_id = the acting admin and the comment of the request,
\* and every Deployment has the is_applied it had before.
C21_ReturnEffect ==
    [][(/\ Served
        /\ req'[1].op = "update_state"
        /\ req'[1].state = RETURN
        /\ req'[1].status = 200)
       => /\ req'[1].cluster_status = 0
          /\ cluster' = cluster
          /\ deployments'[req'[1].id].state = RETURN
          /\ deployments'[req'[1].id].admin_id = AdminId
          /\ deployments'[req'[1].id].comment = req'[1].comment
          /\ Len(deployments') = Len(deployments)
          /\ \A i \in 1..Len(deployments) :
                deployments'[i].is_applied = deployments[i].is_applied]_vars

\* an applied Deployment has been returned with a comment, and is still
\* applied
C21_Witness ==
    /\ req[1].pc = "done"
    /\ req[1].op = "update_state"
    /\ req[1].state = RETURN
    /\ req[1].status = 200
    /\ req[1].comment = "comment"
    /\ deployments[req[1].id].state = RETURN
    /\ deployments[req[1].id].comment = "comment"
    /\ deployments[req[1].id].is_applied

----------------------------------------------------------------------------
\* C22 (Spec): an administrator's update_state request with state RETURN and
\* no comment, for an existing Deployment, answers with an error status and
\* leaves the Deployment's state, admin_id and comment as they were.
C22_ReturnNeedsComment ==
    [][(/\ Served
        /\ req'[1].op = "update_state"
        /\ req'[1].state = RETURN
        /\ req'[1].admin
        /\ req'[1].comment = NoComment
        /\ Get(deployments, req'[1].id) # None)
       => /\ req'[1].status >= 400
          /\ deployments'[req'[1].id].state = deployments[req'[1].id].state
          /\ deployments'[req'[1].id].admin_id
                = deployments[req'[1].id].admin_id
          /\ deployments'[req'[1].id].comment
                = deployments[req'[1].id].comment]_vars

----------------------------------------------------------------------------
\* the file names of the Manifests of a Deployment, oldest first
FileNamesOf(mans, id) ==
    [k \in 1..Len(ManifestIds(mans, id)) |->
        mans[ManifestIds(mans, id)[k]].file_name]

----------------------------------------------------------------------------
\* C24 (Spec): in every reachable state, an image update with a token other
\* than the shared secret answers 401 with no cluster call and no change of
\* the cluster or the tables, whatever user the token identifies; and an
\* image update with the shared secret can end with the same statuses
\* whether or not the token identifies a user.
C24_SecretIsSoleAuthorization ==
    req[1].pc = "idle" =>
       \A app \in AppIds, user \in {NoUser, UserId, BotId} :
          /\ \A c \in Run(Ctx(UpdateDeploymentImage(
                                 app, [secret |-> FALSE, user |-> user]))) :
                /\ c.r.status = 401
                /\ c.r.cluster_status = 0
                /\ c.cluster = cluster
                /\ c.deployments = deployments
                /\ c.manifests = manifests
                /\ c.applications = applications
          /\ {c.r.status : c \in Run(Ctx(UpdateDeploymentImage(
                                 app, [secret |-> TRUE, user |-> user])))}
                = {c.r.status : c \in Run(Ctx(UpdateDeploymentImage(
                                 app, [secret |-> TRUE, user |-> BotId])))}

----------------------------------------------------------------------------
\* C25 (Spec): when a request_deployment or an image update answers with an
\* error status after it has written its new Deployment row, the Deployment
\* and Manifest tables are as they were before the request.
C25_CreateFailureRollsBack ==
    [][(/\ Served
        /\ req'[1].op \in {"request_deployment", "update_deployment_image"}
        /\ req'[1].new # None
        /\ req'[1].status >= 400)
       => /\ deployments' = deployments
          /\ manifests' = manifests]_vars

----------------------------------------------------------------------------
\* the Applications of the list whose single status query succeeds
Succeeding ==
    SelectSeq(k8s.apps,
              LAMBDA a : GetApplicationStatus(a, k8s.answers[a]).exc = NoExc)

\* C26 (SpecStatus): get_all_applications_status never raises, and returns
\* the statuses of exactly the Applications of the list whose own query
\* succeeds, one each, in list order; over three Applications of which one
\* fails it returns two statuses.
C26_BatchSkipsFailures ==
    k8s.last.op = "get_all_applications_status" =>
       /\ k8s.last.exc = NoExc
       /\ k8s.last.statuses = Succeeding
       /\ (Len(k8s.apps) = 3 /\ Len(Succeeding) = 2)
             => Len(k8s.last.statuses) = 2

\* the batch query over three Applications, the second of which the cluster
\* refuses to read, has returned the statuses of the first and the third
C26_Witness ==
    /\ k8s.last.op = "get_all_applications_status"
    /\ Len(k8s.apps) = 3
    /\ k8s.answers[2].dep = 403
    /\ k8s.last.statuses = <<1, 3>>
    /\ k8s.last.exc = NoExc

----------------------------------------------------------------------------
\* C27 (SpecStatus): a single-application status query whose Deployment
\* resource the cluster answers 404 for raises the 404 error.
C27_MissingDeploymentIs404 ==
    (/\ k8s.last.op = "get_application_status"
     /\ k8s.answers[k8s.last.app].dep = 404)
    => k8s.last.exc = HTTPException(404)

----------------------------------------------------------------------------
\* C28 (SpecApps): in every reachable state, two requests in flight or not,
\* no two non-deleted Applications have the same name.
C28_UniqueNames ==
    \A i, j \in 1..Len(applications) :
       (/\ i # j
        /\ ~applications[i].deleted
        /\ ~applications[j].deleted)
       => applications[i].name # applications[j].name

----------------------------------------------------------------------------
\* the elements of a sequence of ids
Range(seq) == {seq[i] : i \in 1..Len(seq)}

\* a step keeps every row of the table, and a row it soft-deletes differs
\* from the row before in the deleted flag only
KeepsRows(before, after) ==
    /\ Len(after) >= Len(before)
    /\ \A i \in 1..Len(before) :
          (after[i].deleted /\ ~before[i].deleted)
             => after[i] = [before[i] EXCEPT !.deleted = TRUE]
    /\ \A i \in 1..Len(before) : before[i].deleted => after[i].deleted

\* no query returns or counts a soft-deleted row of the three tables
NoDeletedReturned(apps, deps, mans) ==
    /\ \A i \in 1..Len(deps) :
          deps[i].deleted =>
             /\ Get(deps, i) = None
             /\ i \notin Range(GetByApplication(deps, deps[i].application_id))
             /\ i \notin Range(GetByState(deps, deps[i].state))
             /\ i \notin GetApplied(deps, deps[i].application_id)
             /\ i \notin Range(GetMulti(deps))
    /\ \A i \in 1..Len(mans) :
          mans[i].deleted =>
             /\ Get(mans, i) = None
             /\ i \notin Range(GetByDeployment(mans, mans[i].deployment_id))
             /\ i \notin Range(ManifestIds(mans, mans[i].deployment_id))
             /\ i \notin Range(GetMulti(mans))
    /\ \A i \in 1..Len(apps) :
          apps[i].deleted =>
             /\ GetApplication(apps, i) = None
             /\ i \notin Range(GetMulti(apps))
    /\ GetCount(deps) + Cardinality({i \in 1..Len(deps) : deps[i].deleted})
          = Len(deps)
    /\ GetCount(mans) + Cardinality({i \in 1..Len(mans) : mans[i].deleted})
          = Len(mans)
    /\ GetCount(apps) + Cardinality({i \in 1..Len(apps) : apps[i].deleted})
          = Len(apps)

----------------------------------------------------------------------------
\* the Application that the request r is about: the one it names, or the
\* one that the Deployment it names belongs to
TargetApp(r) ==
    IF r.op \in {"request_deployment", "update_deployment_image",
                 "delete_application"}
    THEN r.app
    ELSE IF r.id \in 1..Len(deployments)
    THEN deployments[r.id].application_id
    ELSE 0

\* the Deployment rows of Application app and the Manifest rows of those
\* Deployments, each under its id
RowsOf(deps, mans, app) ==
    [deps |-> [i \in {k \in 1..Len(deps) : deps[k].application_id = app}
                 |-> deps[i]],
     mans |-> [j \in {k \in 1..Len(mans) :
                        /\ mans[k].deployment_id \in 1..Len(deps)
                        /\ deps[mans[k].deployment_id].application_id = app}
                 |-> mans[j]]]

\* C30 (SpecFrame): every step of a request about Application A, whichever
\* steps of a request about another Application come before or after it,
\* leaves every Deployment row and every Manifest row of every other
\* Application B as it was, in every column (state, is_applied, admin_id,
\* comment, deleted_at among them); steps that start a request or hand back
\* its response change no row at all.
C30_OtherApplicationsUntouched ==
    [][\A B \in AppIds :
          \/ \E p \in Procs : /\ InFlight(p)
                              /\ req'[p] # req[p]
                              /\ B = TargetApp(req[p])
          \/ RowsOf(deployments', manifests', B)
                = RowsOf(deployments, manifests, B)]_vars

\* worker 1 is in the middle of an approval of a Deployment of Application 1
\* and has written, while worker 2 is in the middle of a request about
\* Application 2 and has written, and Application 2 has an applied Deployment
\* with a Manifest
C30_Witness ==
    /\ InFlight(1) /\ InFlight(2)
    /\ req[1].op = "update_state"
    /\ req[1].state = APPROVAL
    /\ req[1].writes > 0
    /\ req[2].writes > 0
    /\ TargetApp(req[1]) = 1
    /\ TargetApp(req[2]) = 2
    /\ \E i \in 1..Len(deployments) :
          /\ deployments[i].application_id = 2
          /\ deployments[i].is_applied
          /\ ManifestIds(manifests, i) # << >>

----------------------------------------------------------------------------
\* the items of the k8s.manifests list that fall into the Other bucket
OtherItems ==
    {i \in 1..Len(k8s.manifests) :
        KindOf(k8s.manifests[i].content) \notin CoreKinds}

\* C31 (SpecApply): when apply_k8s is called on a list that holds a manifest
\* of a kind outside Namespace, Service, Deployment, Ingress and the cluster
\* rejects no call, apply_k8s raises nothing, every such manifest is on the
\* cluster afterwards with the manifest as its body, and its file name is
\* among the applied files.
C31_OtherKindApplied ==
    (k8s.n > 0 /\ k8s.last.fault = NoFault /\ OtherItems # {}) =>
       /\ k8s.last.exc = NoExc
       /\ \A i \in OtherItems :
             /\ KeyOf(k8s.manifests[i]) \in DOMAIN cluster
             /\ cluster[KeyOf(k8s.manifests[i])] = k8s.manifests[i].content
             /\ \E j \in 1..Len(k8s.last.applied_files) :
                   k8s.last.applied_files[j] = k8s.manifests[i].file_name

----------------------------------------------------------------------------
\* the items of the k8s.manifests list whose content does not parse or
\* has no kind
Unclassifiable ==
    {i \in 1..Len(k8s.manifests) :
        \/ k8s.manifests[i].content.form = "bad"
        \/ (k8s.manifests[i].content.form = "map"
            /\ k8s.manifests[i].content.kind = "")}

\* the items of the k8s.manifests list of the four kinds, in kind order
CoreItems ==
    SelectSeq(StableItems(k8s.manifests),
              LAMBDA m : m.content.form = "map"
                         /\ Lower(m.content.kind) \in CoreKinds)

\* C32 (SpecParse): when apply_k8s is called on a list that holds a manifest
\* whose content does not parse or has no kind, and the cluster rejects no
\* call, the batch is not aborted: the manifests of the four kinds are
\* attempted first and in kind order, and each of them is on the cluster
\* afterwards.
C32_ParseFailureIsSoft ==
    (k8s.n > 0 /\ k8s.last.fault = NoFault /\ Unclassifiable # {}) =>
       /\ Len(k8s.last.files) >= Len(CoreItems)
       /\ \A j \in 1..Len(CoreItems) :
             /\ k8s.last.files[j] = CoreItems[j].file_name
             /\ KeyOf(CoreItems[j]) \in DOMAIN cluster

----------------------------------------------------------------------------
\* the Deployment-kind items of the k8s.manifests list
DeploymentItems ==
    {i \in 1..Len(k8s.manifests) :
        KindOf(k8s.manifests[i].content) = "deployment"}

\* the last apply_deployment_update call built its manifest list
Built ==
    /\ k8s.n = 1
    /\ Len(k8s.last.new_manifests) = Len(k8s.manifests)
    /\ Len(k8s.manifests) > 0

\* C33 (SpecImage): when an image update is run on a manifest set that holds
\* a Deployment-kind manifest, either some Deployment-kind manifest has no
\* containers and the update fails with no cluster call, or the set built has
\* the file names of the original in the same order, every manifest of
\* another kind is copied unchanged, and exactly one manifest differs from
\* its original: it is of kind Deployment and differs in its image alone,
\* which is the new image.
C33_ImageSubstitution ==
    (k8s.n = 1 /\ DeploymentItems # {}) =>
       IF \E i \in DeploymentItems : k8s.manifests[i].content.image = ""
       THEN k8s.last.exc # NoExc /\ k8s.last.calls = << >>
       ELSE /\ Built
            /\ \A i \in 1..Len(k8s.manifests) :
                  /\ k8s.last.new_manifests[i].file_name
                        = k8s.manifests[i].file_name
                  /\ i \notin DeploymentItems
                        => k8s.last.new_manifests[i] = k8s.manifests[i]
            /\ \E i \in DeploymentItems :
                  /\ k8s.last.new_manifests[i]
                        = SetImage(k8s.manifests[i], NewImage)
                  /\ \A j \in 1..Len(k8s.manifests) :
                        j # i => k8s.last.new_manifests[j] = k8s.manifests[j]

----------------------------------------------------------------------------
\* C34 (SpecFrame): while an image update is in flight, the Deployment row
\* it has created, once it is in the store where the other worker's reads
\* and the in-flight guard of a request_deployment find it, is in APPROVAL
\* state.
C34_NewRecordNeverInRequest ==
    \A p \in Procs :
       (/\ InFlight(p)
        /\ req[p].op = "update_deployment_image"
        /\ req[p].new # None)
          => /\ Get(deployments, req[p].new) # None
             /\ deployments[req[p].new].state = APPROVAL

----------------------------------------------------------------------------
\* C35 (Spec): when update_deployment answers 200 for a request with a
\* non-empty manifest list, every Manifest the Deployment had is soft-deleted
\* and otherwise as it was, one Manifest row per supplied item is added for
\* the Deployment, in the supplied order, every other Manifest row is
\* unchanged, and the Deployment's non-deleted Manifests are exactly the
\* supplied list; when it answers 200 for a request with an empty manifest
\* list, no Manifest row is changed or added.
C35_EditReplacesManifests ==
    [][(Served /\ req'[1].op = "update_deployment" /\ req'[1].status = 200)
         => \E id \in {req'[1].id}, input \in {req'[1].in_manifests} :
              \E old \in {ManifestIds(manifests, id)} :
                 IF input = << >>
                 THEN manifests' = manifests
                 ELSE /\ Len(manifests') = Len(manifests) + Len(input)
                      /\ \A i \in 1..Len(manifests) :
                            manifests'[i] =
                               IF i \in Range(old)
                               THEN [manifests[i] EXCEPT !.deleted = TRUE]
                               ELSE manifests[i]
                      /\ \A j \in 1..Len(input) :
                            manifests'[Len(manifests) + j]
                               = NewManifest(id, input[j])
                      /\ ManifestBases(manifests', ManifestIds(manifests', id))
                            = input]_vars

\* an edit with a manifest list has answered 200 for a Deployment that had a
\* Manifest: that Manifest is soft-deleted and a new one stands in its place
C35_Witness ==
    /\ req[1].pc = "done"
    /\ req[1].op = "update_deployment"
    /\ req[1].status = 200
    /\ req[1].in_manifests # << >>
    /\ \E i, j \in 1..Len(manifests) :
          /\ i < j
          /\ manifests[i].deployment_id = req[1].id
          /\ manifests[i].deleted
          /\ manifests[j].deployment_id = req[1].id
          /\ ~manifests[j].deleted

----------------------------------------------------------------------------
\* the requests that may mark a Deployment applied
Applying(r) ==
    \/ r.op = "update_state" /\ r.state = APPROVAL
    \/ r.op = "update_deployment_image"
    \/ r.op = "rollback_deployment"

\* C36 (SpecFrame): a Deployment row enters the store with state REQUEST,
\* is_applied false, no admin_id and no comment; and a step that turns
\* is_applied of a row from false to true is a step of an approval, of an
\* image update or of a rollback, and leaves that row in APPROVAL state.  So
\* a row with is_applied true is, or has been, in APPROVAL state.
C36_AppliedOnlyThroughApproval ==
    [][/\ \A i \in (Len(deployments) + 1)..Len(deployments') :
             \E app \in AppIds : deployments'[i] = NewDeployment(app)
       /\ \A i \in 1..Len(deployments) :
             (~deployments[i].is_applied /\ deployments'[i].is_applied)
                => /\ deployments'[i].state = APPROVAL
                   /\ \E p \in Procs : /\ InFlight(p)
                                       /\ req'[p] # req[p]
                                       /\ Applying(req[p])]_vars

\* a rollback has answered 200 and its target, unapplied before, is applied;
\* the Deployment that an image update created is no longer applied
C36_Witness ==
    \E p \in Procs :
       /\ req[p].pc = "done"
       /\ req[p].op = "rollback_deployment"
       /\ req[p].status = 200
       /\ deployments[req[p].id].is_applied
       /\ deployments[req[p].id].state = APPROVAL
       /\ \E j \in 1..Len(deployments) :
             /\ j # req[p].id
             /\ deployments[j].comment = CiComment
             /\ ~deployments[j].is_applied

----------------------------------------------------------------------------
\* C37 (Spec): no request changes the non-deleted Manifests (file names and
\* contents, in order) of a Deployment that is in APPROVAL state when the
\* request arrives and is still in the store afterwards.
C37_ApprovedManifestsFrozen ==
    [][\A i \in 1..Len(deployments) :
          (/\ deployments[i].state = APPROVAL
           /\ ~deployments[i].deleted
           /\ ~deployments'[i].deleted)
             => ManifestBases(manifests', ManifestIds(manifests', i))
                   = ManifestBases(manifests, ManifestIds(manifests, i))]_vars

----------------------------------------------------------------------------
\* C38 (Spec): when delete_application has answered 200, the Application is
\* soft-deleted, no Deployment of it is left non-deleted, and no Manifest of
\* a Deployment of it is left non-deleted.
C38_DeleteLeavesNothing ==
    (req[1].pc = "done" /\ req[1].op = "delete_application"
        /\ req[1].status = 200)
       => /\ applications[req[1].app].deleted
          /\ \A i \in 1..Len(deployments) :
                deployments[i].application_id = req[1].app
                   => /\ deployments[i].deleted
                      /\ \A j \in 1..Len(manifests) :
                            manifests[j].deployment_id = i
                               => manifests[j].deleted

----------------------------------------------------------------------------
\* C39 (SpecAge): _calculate_age of a resource created d whole days, h whole
\* hours and m whole minutes before now is "<d>d" when d >= 1, otherwise
\* "<h>h" when h >= 1, otherwise "<m>m"; without a creation timestamp it is
\* "Unknown".
C39_AgeBuckets ==
    k8s.n = 1 =>
       k8s.age = IF k8s.input.missing THEN "Unknown"
                 ELSE IF k8s.input.d >= 1 THEN ToString(k8s.input.d) \o "d"
                 ELSE IF k8s.input.h >= 1 THEN ToString(k8s.input.h) \o "h"
                 ELSE ToString(k8s.input.m) \o "m"

\* the age of a resource created 1 day, 23 hours, 59 minutes and 59 seconds
\* ago has been computed, and it is "1d"
C39_Witness ==
    /\ k8s.n = 1
    /\ ~k8s.input.missing
    /\ k8s.input.d = 1 /\ k8s.input.h = 23 /\ k8s.input.m = 59
    /\ k8s.input.s = 59
    /\ k8s.now - k8s.creation_timestamp.at = 2 * 86400 - 1
    /\ k8s.age = "1d"

----------------------------------------------------------------------------
\* the resource as the last poll found it is ready: a Deployment's ready
\* replicas equal its replicas, a Service or an Ingress exists
FoundReady ==
    /\ ~k8s.answer.error
    /\ k8s.answer.found
    /\ k8s.kind \in {"Deployment", "Service", "Ingress"}
    /\ k8s.kind = "Deployment"
          => k8s.answer.ready_replicas = k8s.answer.replicas

WaitOver == k8s.pc \in {"returned", "TimeoutError"}

=============================================================================
